---- MODULE Spec2Model ----
(***************************************************************************)
(* Fragment-transfer engine of MyGeo4.                                     *)
(*                                                                         *)
(* Spec        : one Server instance (server.py) with its Cluster table    *)
(*               and the DataNode services (datanode.py) it connects to.   *)
(* SpecCoord   : one CoordinatorNode instance (coordinator_node.py) with   *)
(*               the placement of DataDistributor (data_distributor.py).   *)
(* SpecTabelas : the two fragment tables called directly, the Cluster      *)
(*               table (server.py, cluster.py) and Models (models.py).     *)
(* SpecDivisoes: the fragment count the Server and the CoordinatorNode     *)
(*               compute for a size given in bytes.                        *)
(* SpecCliente : one ClienteImagem (client.py) uploading and downloading   *)
(*               whole files through the Server, one remote call a step.   *)
(* SpecFragmentos: the Server's upload and download handlers with empty    *)
(*               fragments among the submissions.                          *)
(* SpecDistribuicao: DataDistributor._select_nodes_for_fragment called    *)
(*               with any list of distinct available nodes.                *)
(* SpecRanking : the Cluster of cluster.py, its selection by resource      *)
(*               score and its table.                                      *)
(* SpecSaude   : the node registry of the CoordinatorNode and its health   *)
(*               thread; SpecSaudeJusta adds the thread's fairness.        *)
(* SpecPubSub  : the PubSub monitor (pubsub.py): subscriptions, events,   *)
(*               failure detection and reconfiguration of the cluster.     *)
(* SpecReconfiguracao: the Server's uploads together with the monitor's    *)
(*               detection and reconfiguration.                            *)
(* SpecRepeticao: fragment submissions repeated after a failure, on data   *)
(*               nodes with room for the largest file.                     *)
(* SpecInterface: one ClientInterface (client_interface.py) uploading      *)
(*               through the CoordinatorNode.                              *)
(* SpecDoisClientes: two clients calling one Server instance.              *)
(*                                                                         *)
(* Sizes are counted in MiB: a byte string is a sequence whose elements    *)
(* stand for one MiB each, so TAMANHO_FRAGMENTO = 2_097_152 bytes is 2.    *)
(* Python's None and "a value" are written None and Some(v).               *)
(***************************************************************************)
EXTENDS Integers, Sequences, FiniteSets, TLC

VARIABLES
    tabela_indice,          \* Cluster.tabela_indice: name -> list of slots
    tem_nome_imagem_atual,  \* hasattr(self, 'nome_imagem_atual')
    nome_imagem_atual,      \* Server.nome_imagem_atual
    tamanho_imagem,         \* Server.tamanho_imagem
    indice_fragmento,       \* Server.indice_fragmento (the cursor)
    divisoes_imagem,        \* Server.divisoes_imagem
    nos_selecionados,       \* Server.nos_selecionados
    arquivos,               \* per data node: the files of datanode_storage
    current_storage_mb,     \* per data node: DataNode.current_storage_mb
    max_storage_mb,         \* DataNode.max_storage_mb, the same on every node
    ultimo_inicio,          \* history: the last successful initiation
    upload_aberto,          \* history: an upload was initiated, not finalized
    image_metadata,         \* CoordinatorNode.image_metadata
    nos_fragmentos,         \* Models.nos_fragmentos: name -> list of node lists
    tamanho_fragmentos,     \* Models.tamanho_fragmentos: name -> list of sizes
    tamanho_imagem_models,  \* Models.tamanho_imagem: name -> running total
    contagem,               \* a size in bytes and the fragment counts the two
                            \* initiations report for it
    cliente,                \* ClienteImagem: the call in progress, its local
                            \* variables and the files it reads and writes
    distribuicao,           \* DataDistributor: the first and the last call of
                            \* _select_nodes_for_fragment and their results
    ranking,                \* Cluster of cluster.py: the last call of
                            \* selecionar_nos_armazenamento
    storage_nodes,          \* CoordinatorNode.storage_nodes: the items of the
                            \* dict in insertion order
    relogio,                \* the latest value time.time() has returned
    varredura,              \* the thread of _check_node_health: where it is,
                            \* its current_time and the next item to visit
    data_nodes,             \* the keys of cluster.data_nodes in dict order
    assinantes,             \* PubSub.assinantes: the items of the dict in
                            \* insertion order
    entregas,               \* the events published and the callbacks
                            \* invoked by the last call of publicar_evento
                            \* or reconfigurar_cluster or the last iteration
                            \* of detectar_falha_datanode
    deteccao,               \* the call of detectar_falha_datanode in
                            \* progress: its iterator and its list
    interface,              \* ClientInterface: the call of upload_image in
                            \* progress, its local variables, the writes it
                            \* has made and what it returned
    sessoes,                \* history: the client of the last call on the
                            \* Server and what each client initiated last
    ret                     \* the last call and what it returned

sessao == <<tem_nome_imagem_atual, nome_imagem_atual, tamanho_imagem,
            indice_fragmento, divisoes_imagem, nos_selecionados>>
nos == <<arquivos, current_storage_mb>>
historia == <<ultimo_inicio, upload_aberto>>
servidor == <<tabela_indice, sessao, nos, historia>>
coord == <<image_metadata>>
tabelas == <<nos_fragmentos, tamanho_fragmentos, tamanho_imagem_models>>
\* the node registry of the CoordinatorNode and its health thread
saude == <<storage_nodes, relogio, varredura>>
\* the variables of the placement, ranking and health components
\* the PubSub monitor and the node map of the cluster it watches
monitor == <<data_nodes, assinantes, entregas, deteccao>>
\* the callers of the CoordinatorNode and of the Server
chamadas == <<interface, sessoes>>
demais == <<distribuicao, ranking, saude, monitor, chamadas>>
outros == <<tabelas, contagem, max_storage_mb, cliente, demais>>
vars == <<servidor, coord, outros, ret>>

----------------------------------------------------------------------------
(* Bounds of the model *)

MaxTamanho == 3
MaxArmazenamento == 1
MaxDivisoes == 1    \* slots of an object in SpecTabelas
MaxTotal == 3       \* cap of Models.tamanho_imagem in SpecTabelas
MaxMultiplo == 3    \* leading part of the sizes in bytes of SpecDivisoes
MaxArquivo == 3     \* size of the largest file a client uploads
MaxRelogio == 3     \* the latest instant of SpecSaude, in quarters of a minute
MaxAssinaturas == 2  \* subscriptions made in SpecPubSub

(* Program constants *)

\* DataNode.max_storage_mb is 1024 in the source; the quota is scaled down to
\* MaxArmazenamento so that a full node is within reach, and to MaxArquivo
\* where a client uploads whole files

NumDatanodes == 4
FATOR_REPLICACAO == 2
TAMANHO_FRAGMENTO == 2

(* Inputs of the calls: two object names, an empty and a two-fragment size,
   a valid and a negative fragment index, a one-MiB fragment *)

Nomes == {"a", "b"}
Tamanhos == {0, MaxTamanho}
Indices == {-1, 0}
Fragmentos == {<<1>>}
DataNodes == 1..NumDatanodes
Respostas == {"ok", "falso", "excecao"}

----------------------------------------------------------------------------
(* Python values *)

None == <<>>
Some(v) == <<v>>
Val(o) == o[1]

PyNone == [tipo |-> "None", b |-> <<>>, s |-> ""]
PyBytes(dados) == [tipo |-> "bytes", b |-> dados, s |-> ""]
PyStr(texto) == [tipo |-> "str", b |-> <<>>, s |-> texto]

Truthy(v) ==
    CASE v.tipo = "None" -> FALSE
      [] v.tipo = "bytes" -> Len(v.b) > 0
      [] v.tipo = "str" -> v.s # ""

PyOr(v, alt) == IF Truthy(v) THEN v ELSE alt

CeilDiv(a, b) == IF a % b = 0 THEN a \div b ELSE (a \div b) + 1

\* list[i] with Python's negative indices; InRange is "no IndexError"
InRange(lista, i) == i < Len(lista) /\ i >= -Len(lista)
PyIndex(lista, i) == IF i >= 0 THEN i + 1 ELSE Len(lista) + i + 1

RECURSIVE SomaSeq(_)
SomaSeq(s) == IF s = <<>> THEN 0 ELSE Head(s) + SomaSeq(Tail(s))

Contem(lista, x) == \E i \in 1..Len(lista) : lista[i] = x

Retorno(op, nome, sucesso, motivo, valor, num) ==
    [op |-> op, nome |-> nome, sucesso |-> sucesso, motivo |-> motivo,
     valor |-> valor, num |-> num]

----------------------------------------------------------------------------
(* DataNode (datanode.py): one node's files and its storage counter.
   A file is addressed by its path; "resposta" is how the node reacts to the
   call: "ok" runs the method body, "falso" is an exception inside the body
   (the method's except branch), "excecao" is a call that raises at the
   caller because the node cannot be reached. *)

_gerar_caminho_fragmento(nome, indice) ==
    <<IF nome = None THEN "None" ELSE Val(nome), indice>>

Existe(arq, caminho) == caminho \in DOMAIN arq

Escrever(arq, caminho, dados) ==
    [c \in DOMAIN arq \cup {caminho} |-> IF c = caminho THEN dados ELSE arq[c]]

Remover(arq, caminho) == [c \in DOMAIN arq \ {caminho} |-> arq[c]]

armazenar_fragmento_imagem(no, nome, indice, fragmento, resposta) ==
    LET caminho == _gerar_caminho_fragmento(nome, indice)
        fragmento_size_mb == Len(fragmento)
    IN  IF no.current_storage_mb + fragmento_size_mb > max_storage_mb
        THEN [ok |-> FALSE, no |-> no]
        ELSE IF resposta = "falso"
        THEN [ok |-> FALSE, no |-> no]
        ELSE [ok |-> TRUE,
              no |-> [arquivos |->
                          Escrever(no.arquivos, caminho,
                                   IF Existe(no.arquivos, caminho)
                                   THEN no.arquivos[caminho] \o fragmento
                                   ELSE fragmento),
                      current_storage_mb |->
                          no.current_storage_mb + fragmento_size_mb]]

recuperar_fragmento_imagem(no, nome, indice, resposta) ==
    LET caminho == _gerar_caminho_fragmento(nome, indice)
    IN  IF resposta = "falso" \/ ~Existe(no.arquivos, caminho)
        THEN [fragmento |-> PyNone, fim |-> FALSE]
        ELSE [fragmento |-> PyBytes(no.arquivos[caminho]), fim |-> TRUE]

deletar_fragmento_imagem(no, nome, indice, resposta) ==
    LET caminho == _gerar_caminho_fragmento(nome, indice)
    IN  IF resposta = "falso" \/ ~Existe(no.arquivos, caminho)
        THEN [ok |-> FALSE, no |-> no]
        ELSE [ok |-> TRUE,
              no |-> [arquivos |-> Remover(no.arquivos, caminho),
                      current_storage_mb |->
                          no.current_storage_mb - Len(no.arquivos[caminho])]]

No(arqs, curs, id) ==
    [arquivos |-> arqs[id], current_storage_mb |-> curs[id]]

----------------------------------------------------------------------------
(* Cluster (server.py) *)

selecionar_nos_armazenamento ==
    [i \in 1..(IF FATOR_REPLICACAO < NumDatanodes
               THEN FATOR_REPLICACAO ELSE NumDatanodes) |-> i]

SlotVazio == [nodes |-> <<>>, size |-> None]

\* variant without the "already in the table" check: the entry is overwritten
iniciar_tabela_indice_sem_verificacao(tabela, nome, divisoes) ==
    [ok |-> TRUE,
     tabela |-> [n \in DOMAIN tabela \cup {nome} |->
                    IF n = nome THEN [i \in 1..divisoes |-> SlotVazio]
                    ELSE tabela[n]]]

iniciar_tabela_indice(tabela, nome, divisoes) ==
    IF nome \in DOMAIN tabela
    THEN [ok |-> FALSE, tabela |-> tabela]
    ELSE [ok |-> TRUE,
          tabela |-> [n \in DOMAIN tabela \cup {nome} |->
                         IF n = nome THEN [i \in 1..divisoes |-> SlotVazio]
                         ELSE tabela[n]]]

RECURSIVE AdicionarUnicos(_, _)
AdicionarUnicos(lista, novos) ==
    IF novos = <<>> THEN lista
    ELSE AdicionarUnicos(IF Contem(lista, Head(novos)) THEN lista
                         ELSE Append(lista, Head(novos)),
                         Tail(novos))

\* raises KeyError / IndexError unless PodeAtualizar
PodeAtualizar(tabela, nome, indice) ==
    /\ nome # None
    /\ Val(nome) \in DOMAIN tabela
    /\ InRange(tabela[Val(nome)], indice)

atualizar_tabela_indice(tabela, nome, indice, tamanho, nos_frag) ==
    LET p == PyIndex(tabela[nome], indice)
        fragmento == tabela[nome][p]
    IN  [tabela EXCEPT ![nome][p] =
            [nodes |-> AdicionarUnicos(fragmento.nodes, nos_frag),
             size |-> Some(tamanho)]]

tamanho_total_imagem(tabela, nome) ==
    IF nome \in DOMAIN tabela
    THEN SomaSeq([i \in 1..Len(tabela[nome]) |->
                     IF tabela[nome][i].size = None THEN 0
                     ELSE Val(tabela[nome][i].size)])
    ELSE 0

----------------------------------------------------------------------------
(* Server (server.py). Every handler is an operator from the current state
   and the call's inputs to the fields it assigns and the value it returns;
   the action of the same exposed_ name applies it. *)

EstadoNos == [arquivos |-> arquivos, current_storage_mb |-> current_storage_mb]

ComNo(est, id, no) ==
    [arquivos |-> [est.arquivos EXCEPT ![id] = no.arquivos],
     current_storage_mb |->
         [est.current_storage_mb EXCEPT ![id] = no.current_storage_mb]]

\* the loop "for id_no in self.nos_selecionados" of exposed_upload_fragmento
RECURSIVE EnviarParaNos(_, _, _, _, _, _)
EnviarParaNos(lista, est, nome, indice, fragmento, resp) ==
    IF lista = <<>> THEN [resultado |-> "ok", est |-> est]
    ELSE LET id_no == Head(lista)
         IN  IF resp[id_no] = "excecao"
             THEN [resultado |-> "no_excecao", est |-> est]
             ELSE LET r == armazenar_fragmento_imagem(
                               No(est.arquivos, est.current_storage_mb, id_no),
                               nome, indice, fragmento, resp[id_no])
                  IN  IF ~r.ok
                      THEN [resultado |-> "no_rejeitou", est |-> est]
                      ELSE EnviarParaNos(Tail(lista), ComNo(est, id_no, r.no),
                                         nome, indice, fragmento, resp)

\* variant that records the fragment although a node did not accept it
upload_fragmento_registra_parcial(fragmento, indice, resp) ==
    IF ~tem_nome_imagem_atual
    THEN [sucesso |-> FALSE, motivo |-> "nao_iniciado",
          tabela |-> tabela_indice, est |-> EstadoNos]
    ELSE IF nos_selecionados = None
    THEN [sucesso |-> FALSE, motivo |-> "excecao",
          tabela |-> tabela_indice, est |-> EstadoNos]
    ELSE LET envio == EnviarParaNos(Val(nos_selecionados), EstadoNos,
                                    nome_imagem_atual, indice, fragmento, resp)
         IN  IF ~PodeAtualizar(tabela_indice, nome_imagem_atual, indice)
             THEN [sucesso |-> FALSE, motivo |-> "excecao",
                   tabela |-> tabela_indice, est |-> envio.est]
             ELSE [sucesso |-> envio.resultado = "ok",
                   motivo |-> IF envio.resultado = "ok" THEN ""
                              ELSE envio.resultado,
                   tabela |-> atualizar_tabela_indice(
                                  tabela_indice, Val(nome_imagem_atual), indice,
                                  Len(fragmento), Val(nos_selecionados)),
                   est |-> envio.est]

upload_fragmento(fragmento, indice, resp) ==
    IF ~tem_nome_imagem_atual
    THEN [sucesso |-> FALSE, motivo |-> "nao_iniciado",
          tabela |-> tabela_indice, est |-> EstadoNos]
    ELSE IF nos_selecionados = None
    THEN [sucesso |-> FALSE, motivo |-> "excecao",
          tabela |-> tabela_indice, est |-> EstadoNos]
    ELSE LET envio == EnviarParaNos(Val(nos_selecionados), EstadoNos,
                                    nome_imagem_atual, indice, fragmento, resp)
         IN  IF envio.resultado # "ok"
             THEN [sucesso |-> FALSE, motivo |-> envio.resultado,
                   tabela |-> tabela_indice, est |-> envio.est]
             ELSE IF ~PodeAtualizar(tabela_indice, nome_imagem_atual, indice)
             THEN [sucesso |-> FALSE, motivo |-> "excecao",
                   tabela |-> tabela_indice, est |-> envio.est]
             ELSE [sucesso |-> TRUE, motivo |-> "",
                   tabela |-> atualizar_tabela_indice(
                                  tabela_indice, Val(nome_imagem_atual), indice,
                                  Len(fragmento), Val(nos_selecionados)),
                   est |-> envio.est]

iniciar_upload(nome, tamanho) ==
    LET divisoes == CeilDiv(tamanho, TAMANHO_FRAGMENTO)
        r == iniciar_tabela_indice(tabela_indice, nome, divisoes)
    IN  IF ~r.ok
        THEN [sucesso |-> FALSE, tabela |-> tabela_indice,
              tem |-> tem_nome_imagem_atual, nome |-> nome_imagem_atual,
              tamanho |-> tamanho_imagem, indice |-> indice_fragmento,
              divisoes |-> divisoes_imagem, nos_sel |-> nos_selecionados]
        ELSE [sucesso |-> TRUE, tabela |-> r.tabela,
              tem |-> TRUE, nome |-> Some(nome),
              tamanho |-> Some(tamanho), indice |-> Some(0),
              divisoes |-> Some(divisoes),
              nos_sel |-> Some(selecionar_nos_armazenamento)]

finalizar_upload ==
    IF ~tem_nome_imagem_atual
    THEN [sucesso |-> FALSE, tem |-> tem_nome_imagem_atual]
    ELSE [sucesso |-> TRUE, tem |-> FALSE]

\* variant that starts the download session without looking the name up
download_imagem_sem_consulta(nome) ==
    LET total == tamanho_total_imagem(tabela_indice, nome)
    IN  [sucesso |-> nome \in DOMAIN tabela_indice, tem |-> TRUE,
         nome |-> Some(nome), indice |-> Some(0), tamanho |-> Some(total),
         num |-> IF nome \in DOMAIN tabela_indice THEN Some(total) ELSE None]

download_imagem(nome) ==
    IF nome \notin DOMAIN tabela_indice
    THEN [sucesso |-> FALSE, tem |-> tem_nome_imagem_atual,
          nome |-> nome_imagem_atual, indice |-> indice_fragmento,
          tamanho |-> tamanho_imagem, num |-> None]
    ELSE LET total == tamanho_total_imagem(tabela_indice, nome)
         IN  [sucesso |-> TRUE, tem |-> TRUE, nome |-> Some(nome),
              indice |-> Some(0), tamanho |-> Some(total), num |-> Some(total)]

\* the value of the except branch of exposed_recuperar_fragmento
RetornoDeFalha == PyStr("erro")

\* the value ClienteImagem.download_imagem takes as the end of the stream
FimDeStream == PyNone

\* the condition of the if raises unless the name is set and tracked and the
\* cursor is a number
CursorLegivel ==
    /\ tem_nome_imagem_atual
    /\ nome_imagem_atual # None
    /\ Val(nome_imagem_atual) \in DOMAIN tabela_indice
    /\ indice_fragmento # None

\* variant that asks the other replicas of the slot when the first one
\* fails or does not hold the fragment
recuperar_fragmento_com_alternativa(resposta) ==
    IF ~CursorLegivel
    THEN [valor |-> RetornoDeFalha, indice |-> indice_fragmento,
          caso |-> "falha"]
    ELSE LET slots == tabela_indice[Val(nome_imagem_atual)]
             i == Val(indice_fragmento)
         IN  IF i < Len(slots)
             THEN LET caminho == _gerar_caminho_fragmento(nome_imagem_atual, i)
                      guardam ==
                          {k \in 1..Len(slots[i + 1].nodes) :
                              /\ Existe(arquivos[slots[i + 1].nodes[k]], caminho)
                              /\ k = 1 => resposta = "ok"}
                  IN  IF guardam = {}
                      THEN [valor |-> RetornoDeFalha,
                            indice |-> indice_fragmento, caso |-> "falha"]
                      ELSE LET k == CHOOSE k \in guardam :
                                        \A j \in guardam : k <= j
                           IN  [valor |-> PyOr(PyBytes(arquivos[
                                            slots[i + 1].nodes[k]][caminho]),
                                               PyStr("erro")),
                                indice |-> Some(i + 1), caso |-> "fragmento"]
             ELSE [valor |-> PyOr(PyNone, PyStr("erro")),
                   indice |-> indice_fragmento, caso |-> "fim"]

recuperar_fragmento(resposta) ==
    IF ~CursorLegivel
    THEN [valor |-> RetornoDeFalha, indice |-> indice_fragmento,
          caso |-> "falha"]
    ELSE LET slots == tabela_indice[Val(nome_imagem_atual)]
             i == Val(indice_fragmento)
         IN  IF i < Len(slots)
             THEN IF slots[i + 1].nodes = <<>> \/ resposta = "excecao"
                  THEN [valor |-> RetornoDeFalha, indice |-> indice_fragmento,
                        caso |-> "falha"]
                  ELSE LET no_id == slots[i + 1].nodes[1]
                           r == recuperar_fragmento_imagem(
                                    No(arquivos, current_storage_mb, no_id),
                                    nome_imagem_atual, i, resposta)
                       IN  [valor |-> PyOr(r.fragmento, PyStr("erro")),
                            indice |-> IF r.fim THEN Some(i + 1)
                                       ELSE indice_fragmento,
                            caso |-> IF r.fim THEN "fragmento" ELSE "falha"]
             ELSE [valor |-> PyOr(PyNone, PyStr("erro")),
                   indice |-> indice_fragmento, caso |-> "fim"]

\* the (indice, id_no) pairs of the two nested loops of exposed_deletar_imagem
RECURSIVE Alvos(_, _)
Alvos(slots, i) ==
    IF i > Len(slots) THEN <<>>
    ELSE [k \in 1..Len(slots[i].nodes) |-> <<i - 1, slots[i].nodes[k]>>]
         \o Alvos(slots, i + 1)

RECURSIVE DeletarNosNos(_, _, _, _)
DeletarNosNos(alvos, est, nome, resp) ==
    IF alvos = <<>> THEN [resultado |-> "ok", est |-> est]
    ELSE LET indice == Head(alvos)[1]
             id_no == Head(alvos)[2]
         IN  IF resp[id_no] = "excecao"
             THEN [resultado |-> "no_excecao", est |-> est]
             ELSE LET r == deletar_fragmento_imagem(
                               No(est.arquivos, est.current_storage_mb, id_no),
                               Some(nome), indice, resp[id_no])
                  IN  DeletarNosNos(Tail(alvos), ComNo(est, id_no, r.no),
                                    nome, resp)

\* variant of the delete that reports success and keeps the entry
deletar_imagem_mantem_entrada(nome, resp) ==
    IF nome \notin DOMAIN tabela_indice
    THEN [sucesso |-> FALSE, tabela |-> tabela_indice, est |-> EstadoNos]
    ELSE LET d == DeletarNosNos(Alvos(tabela_indice[nome], 1), EstadoNos,
                                nome, resp)
         IN  [sucesso |-> d.resultado = "ok", tabela |-> tabela_indice,
              est |-> d.est]

deletar_imagem(nome, resp) ==
    IF nome \notin DOMAIN tabela_indice
    THEN [sucesso |-> FALSE, tabela |-> tabela_indice, est |-> EstadoNos]
    ELSE LET d == DeletarNosNos(Alvos(tabela_indice[nome], 1), EstadoNos,
                                nome, resp)
         IN  IF d.resultado # "ok"
             THEN [sucesso |-> FALSE, tabela |-> tabela_indice, est |-> d.est]
             ELSE [sucesso |-> TRUE,
                   tabela |-> [n \in DOMAIN tabela_indice \ {nome} |->
                                  tabela_indice[n]],
                   est |-> d.est]

----------------------------------------------------------------------------
(* DataDistributor (data_distributor.py) over the nodes of NetworkTopology.
   A storage node is named by its position in NetworkTopology._storage_nodes;
   _consistent_hash is int(md5(key)) and is tabulated here, divided by 2^104,
   for the keys this model uses: the str() of the four node addresses and
   "<name>_<index>". *)

NumStorageNodes == 4
replication_factor == 2
fragment_size == 2

get_storage_nodes == [i \in 1..NumStorageNodes |-> i]

_consistent_hash_no(no) ==
    CASE no = 1 -> 12345799
      [] no = 2 -> 8557736
      [] no = 3 -> 1944233
      [] no = 4 -> 4830277

_consistent_hash(nome, indice) ==
    CASE nome = "a" -> <<6984309, 162868, 3197042, 4763840, 13523110>>[indice + 1]
      [] nome = "b" -> <<3031648, 12427329, 7573398, 36304, 1604533>>[indice + 1]
      [] nome = "c" -> <<1545332, 5730077, 7467074, 2143776, 2167984>>[indice + 1]
      [] nome = "d" -> <<4719195, 250826, 9288185, 1557216, 846172>>[indice + 1]

Abs(x) == IF x < 0 THEN -x ELSE x

\* sorted(available_nodes, key=hash): insertion into an ascending list, an
\* element going after the elements of equal key (the sort is stable)
RECURSIVE Inserir(_, _)
Inserir(ordenada, no) ==
    IF ordenada = <<>> THEN <<no>>
    ELSE IF _consistent_hash_no(no) < _consistent_hash_no(Head(ordenada))
         THEN <<no>> \o ordenada
         ELSE <<Head(ordenada)>> \o Inserir(Tail(ordenada), no)

\* variant that leaves the list in the order given
Ordenar_sem_ordenar(lista) == lista

RECURSIVE Ordenar(_)
Ordenar(lista) ==
    IF lista = <<>> THEN <<>>
    ELSE Inserir(Ordenar(SubSeq(lista, 1, Len(lista) - 1)), lista[Len(lista)])

\* variant that starts at the clockwise successor: the first node whose hash
\* is not below the key's, the first node of the order if there is none
Ancora_no_sucessor(ordenada, hash_value) ==
    IF \E p \in 1..Len(ordenada) : _consistent_hash_no(ordenada[p]) >= hash_value
    THEN CHOOSE p \in 1..Len(ordenada) :
            /\ _consistent_hash_no(ordenada[p]) >= hash_value
            /\ \A q \in 1..(p - 1) : _consistent_hash_no(ordenada[q]) < hash_value
    ELSE 1

\* sorted_nodes.index(min(sorted_nodes, key=distance)): the first position of
\* least distance
Ancora(ordenada, hash_value) ==
    CHOOSE p \in 1..Len(ordenada) :
        /\ \A q \in 1..Len(ordenada) :
               Abs(_consistent_hash_no(ordenada[p]) - hash_value)
                   <= Abs(_consistent_hash_no(ordenada[q]) - hash_value)
        /\ \A q \in 1..(p - 1) :
               Abs(_consistent_hash_no(ordenada[q]) - hash_value)
                   > Abs(_consistent_hash_no(ordenada[p]) - hash_value)

_select_nodes_for_fragment(image_name, fragment_index, available_nodes) ==
    LET hash_value == _consistent_hash(image_name, fragment_index)
        sorted_nodes == Ordenar(available_nodes)
        start_index == Ancora(sorted_nodes, hash_value) - 1
    IN  [i \in 1..replication_factor |->
            sorted_nodes[((start_index + i - 1) % Len(sorted_nodes)) + 1]]

distribute_fragments(image_name, num) ==
    [i \in 0..(num - 1) |->
        _select_nodes_for_fragment(image_name, i, get_storage_nodes)]

----------------------------------------------------------------------------
(* CoordinatorNode (coordinator_node.py) *)

initiate_upload(image_name, total_size) ==
    LET num_fragments == (total_size + fragment_size - 1) \div fragment_size
        distribution == distribute_fragments(image_name, num_fragments)
    IN  [metadata |->
            [n \in DOMAIN image_metadata \cup {image_name} |->
                IF n = image_name
                THEN [total_size |-> total_size,
                      num_fragments |-> num_fragments,
                      fragment_size |-> fragment_size,
                      distribution |-> distribution,
                      status |-> None]
                ELSE image_metadata[n]],
         sucesso |-> TRUE, num |-> Some(num_fragments)]

complete_upload(image_name) ==
    IF image_name \in DOMAIN image_metadata
    THEN [metadata |-> [image_metadata EXCEPT
                            ![image_name].status = Some("complete")],
          sucesso |-> TRUE]
    ELSE [metadata |-> image_metadata, sucesso |-> FALSE]

\* "emitidos" is the set of <<node, name, index>> fragment deletes the call
\* sends to storage nodes: the handler sends none
delete_image(image_name) ==
    IF image_name \in DOMAIN image_metadata
    THEN [metadata |-> [n \in DOMAIN image_metadata \ {image_name} |->
                           image_metadata[n]],
          sucesso |-> TRUE, emitidos |-> {}]
    ELSE [metadata |-> image_metadata, sucesso |-> FALSE, emitidos |-> {}]

\* the dict of the entry's fields, or None
initiate_download(image_name) ==
    IF image_name \in DOMAIN image_metadata
    THEN [sucesso |-> TRUE,
          num |-> Some(image_metadata[image_name].num_fragments)]
    ELSE [sucesso |-> FALSE, num |-> None]

----------------------------------------------------------------------------
(* Models (models.py). The three dicts are passed as one record m; a method
   that raises (KeyError, IndexError) leaves m as it was, because the first
   subscript of the method already raises. *)

ModelsEstado ==
    [nos_fragmentos |-> nos_fragmentos,
     tamanho_fragmentos |-> tamanho_fragmentos,
     tamanho_imagem |-> tamanho_imagem_models]

\* d[chave] = valor on a dict
Atribuir(d, chave, valor) ==
    [c \in DOMAIN d \cup {chave} |-> IF c = chave THEN valor ELSE d[c]]

\* del d[chave]
Apagar(d, chave) == [c \in DOMAIN d \ {chave} |-> d[c]]

iniciar_imagem(m, nome, divisoes) ==
    IF nome \in DOMAIN m.nos_fragmentos
    THEN [ok |-> FALSE, m |-> m]
    ELSE [ok |-> TRUE,
          m |-> [nos_fragmentos |->
                     Atribuir(m.nos_fragmentos, nome,
                              [i \in 1..divisoes |-> <<>>]),
                 tamanho_fragmentos |->
                     Atribuir(m.tamanho_fragmentos, nome,
                              [i \in 1..divisoes |-> None]),
                 tamanho_imagem |-> Atribuir(m.tamanho_imagem, nome, 0)]]

\* "ok" is "the call does not raise"
atualizar_fragmento(m, nome, indice, tamanho, nos_frag) ==
    IF nome \notin DOMAIN m.nos_fragmentos
       \/ ~InRange(m.nos_fragmentos[nome], indice)
    THEN [ok |-> FALSE, m |-> m]
    ELSE LET p == PyIndex(m.nos_fragmentos[nome], indice)
         IN  [ok |-> TRUE,
              m |-> [nos_fragmentos |->
                         [m.nos_fragmentos EXCEPT ![nome][p] =
                             AdicionarUnicos(@, nos_frag)],
                     tamanho_fragmentos |->
                         [m.tamanho_fragmentos EXCEPT ![nome][p] =
                             Some(tamanho)],
                     tamanho_imagem |->
                         [m.tamanho_imagem EXCEPT ![nome] = @ + tamanho]]]

remover_imagem(m, nome) ==
    IF nome \notin DOMAIN m.nos_fragmentos
    THEN [ok |-> FALSE, m |-> m]
    ELSE [ok |-> TRUE,
          m |-> [nos_fragmentos |-> Apagar(m.nos_fragmentos, nome),
                 tamanho_fragmentos |-> Apagar(m.tamanho_fragmentos, nome),
                 tamanho_imagem |-> Apagar(m.tamanho_imagem, nome)]]

obter_tamanho_imagem(m, nome) ==
    IF nome \in DOMAIN m.tamanho_imagem THEN m.tamanho_imagem[nome] ELSE 0

verificar_imagem_completa(m, nome) ==
    IF nome \notin DOMAIN m.tamanho_fragmentos THEN FALSE
    ELSE \A i \in 1..Len(m.tamanho_fragmentos[nome]) :
             m.tamanho_fragmentos[nome][i] # None

----------------------------------------------------------------------------
(* The fragment count of a size in bytes. A Python int has no width: a size
   is written as its binary digits, most significant first, zero being the
   empty sequence. The Server computes math.ceil(size / TAMANHO_FRAGMENTO),
   a float division followed by a ceiling; the CoordinatorNode computes
   (size + fragment_size - 1) // fragment_size on ints. *)

BITS_FRAGMENTO == 21    \* TAMANHO_FRAGMENTO = 2_097_152 = 2^21 bytes
MANTISSA == 53          \* significant bits of a Python float

RECURSIVE Bits(_)
Bits(n) == IF n = 0 THEN <<>> ELSE Bits(n \div 2) \o <<n % 2>>

\* without leading zeros
Normalizar(b) ==
    IF \A i \in 1..Len(b) : b[i] = 0 THEN <<>>
    ELSE SubSeq(b,
                CHOOSE i \in 1..Len(b) :
                    b[i] = 1 /\ \A j \in 1..(i - 1) : b[j] = 0,
                Len(b))

Zeros(k) == [i \in 1..k |-> 0]
Uns(k) == [i \in 1..k |-> 1]

\* the number d written in exactly k digits
EmBits(d, k) == Zeros(k - Len(Bits(d))) \o Bits(d)

\* the digit of weight 2^i
Digito(b, i) == IF i < Len(b) THEN b[Len(b) - i] ELSE 0

\* the carry into the digit of weight 2^i of a + b: some lower position has
\* both digits set and every position between has at least one set
Vai(a, b, i) ==
    \E j \in 0..(i - 1) :
        /\ Digito(a, j) = 1 /\ Digito(b, j) = 1
        /\ \A k \in (j + 1)..(i - 1) : Digito(a, k) + Digito(b, k) >= 1

\* a + b on Python ints
Somar(a, b) ==
    LET n == (IF Len(a) > Len(b) THEN Len(a) ELSE Len(b)) + 1
    IN  Normalizar([p \in 1..n |->
            (Digito(a, n - p) + Digito(b, n - p)
             + (IF Vai(a, b, n - p) THEN 1 ELSE 0)) % 2])

\* b // 2^k
DividirPorPotencia(b, k) == IF Len(b) <= k THEN <<>> ELSE SubSeq(b, 1, Len(b) - k)

\* b % 2^k # 0
TemResto(b, k) ==
    \E i \in 1..Len(b) : i > Len(b) - k /\ b[i] = 1

\* int / int of Python, by a power of two: the quotient rounded to the
\* nearest float, ties to even; the result is given as the integer
\* numerator over 2^k, that is the size rounded to MANTISSA significant bits
ArredondarParaFloat(b) ==
    IF Len(b) <= MANTISSA THEN b
    ELSE LET mantissa == SubSeq(b, 1, MANTISSA)
             resto == SubSeq(b, MANTISSA + 1, Len(b))
             metade == resto[1] = 1
             alem == \E i \in 2..Len(resto) : resto[i] = 1
             sobe == metade /\ (alem \/ mantissa[MANTISSA] = 1)
         IN  (IF sobe THEN Somar(mantissa, <<1>>) ELSE mantissa)
             \o Zeros(Len(resto))

\* math.ceil of a float numerator / 2^k
Teto(b, k) ==
    IF TemResto(b, k) THEN Somar(DividirPorPotencia(b, k), <<1>>)
    ELSE DividirPorPotencia(b, k)

\* Server.exposed_iniciar_upload: math.ceil(tamanho_imagem / TAMANHO_FRAGMENTO)
divisoes_do_server(tamanho) == Teto(ArredondarParaFloat(tamanho), BITS_FRAGMENTO)

\* CoordinatorNode.exposed_initiate_upload:
\* (total_size + fragment_size - 1) // fragment_size
num_fragments_do_coord(total_size) ==
    DividirPorPotencia(Somar(total_size, Uns(BITS_FRAGMENTO)), BITS_FRAGMENTO)

----------------------------------------------------------------------------
(* Cluster of cluster.py: the selection by resource score. A node is named by
   its position in data_nodes (data_node_1, data_node_2, ...). A reading is
   what the probe obter_status_no of a node gives: the three percentages, or
   a failure (the call raises, the connection is None). A score is counted in
   tenths, which is exact for the percentages used here. *)

Leitura(ok, cpu, memoria, disco) ==
    [ok |-> ok, cpu |-> cpu, memoria |-> memoria, disco |-> disco]

calcular_pontuacao_no(leitura) ==
    IF ~leitura.ok THEN 0
    ELSE (100 - leitura.cpu) * 4 + (100 - leitura.memoria) * 3
         + (100 - leitura.disco) * 3

\* variant of the insertion that puts a node before the nodes of equal score
InserirPorPontuacao_antes_dos_iguais(ordenados, no, pontos) ==
    LET antes == {k \in 1..Len(ordenados) : pontos[ordenados[k]] > pontos[no]}
    IN  SubSeq(ordenados, 1, Cardinality(antes)) \o <<no>>
        \o SubSeq(ordenados, Cardinality(antes) + 1, Len(ordenados))

\* list.sort(key=score, reverse=True) is stable: a node goes after the nodes
\* of greater or equal score that precede it in the list
InserirPorPontuacao(ordenados, no, pontos) ==
    LET antes == {k \in 1..Len(ordenados) : pontos[ordenados[k]] >= pontos[no]}
    IN  SubSeq(ordenados, 1, Cardinality(antes)) \o <<no>>
        \o SubSeq(ordenados, Cardinality(antes) + 1, Len(ordenados))

RECURSIVE OrdenarPorPontuacao(_, _)
OrdenarPorPontuacao(lista, pontos) ==
    IF lista = <<>> THEN <<>>
    ELSE InserirPorPontuacao(
             OrdenarPorPontuacao(SubSeq(lista, 1, Len(lista) - 1), pontos),
             lista[Len(lista)], pontos)

\* Python's max
Max(a, b) == IF a >= b THEN a ELSE b

\* Cluster.selecionar_nos_armazenamento of cluster.py, given what the probes
\* answer: the scores, the sorted list and the list returned
cluster_py_selecionar_nos_armazenamento(leituras) ==
    LET pontos == [n \in DOMAIN leituras |-> calcular_pontuacao_no(leituras[n])]
        nos_pontuados == OrdenarPorPontuacao([n \in DOMAIN leituras |-> n],
                                             pontos)
    IN  [leituras |-> leituras,
         nos_pontuados |-> nos_pontuados,
         retorno |-> SubSeq(nos_pontuados, 1,
                            Max(FATOR_REPLICACAO, Len(nos_pontuados)))]

----------------------------------------------------------------------------
(* CoordinatorNode: the registry of storage nodes and the health thread.
   storage_nodes is the list of the dict's items in insertion order. Times
   are in seconds. *)

\* the age of a heartbeat above which _check_node_health marks the node
TEMPO_LIMITE_BATIMENTO == 30

Item(node_id, address, status, last_heartbeat) ==
    [node_id |-> node_id,
     info |-> [address |-> address, status |-> status,
               last_heartbeat |-> last_heartbeat]]

\* node_id in self.storage_nodes
Registrado(nodes, node_id) ==
    \E k \in 1..Len(nodes) : nodes[k].node_id = node_id

PosicaoDe(nodes, node_id) ==
    CHOOSE k \in 1..Len(nodes) : nodes[k].node_id = node_id

\* self.storage_nodes[node_id] = {...}: a key already present keeps its place
register_storage_node(nodes, node_id, address, agora) ==
    IF Registrado(nodes, node_id)
    THEN [nodes EXCEPT ![PosicaoDe(nodes, node_id)] =
              Item(node_id, address, "active", agora)]
    ELSE Append(nodes, Item(node_id, address, "active", agora))

deregister_storage_node(nodes, node_id) ==
    IF Registrado(nodes, node_id)
    THEN [storage_nodes |->
              [k \in 1..(Len(nodes) - 1) |->
                  IF k < PosicaoDe(nodes, node_id) THEN nodes[k]
                  ELSE nodes[k + 1]],
          retorno |-> TRUE]
    ELSE [storage_nodes |-> nodes, retorno |-> FALSE]

\* variant of the heartbeat that registers a node it does not know
heartbeat_que_registra(nodes, node_id, agora) ==
    [storage_nodes |-> register_storage_node(nodes, node_id, "", agora),
     retorno |-> TRUE]

heartbeat(nodes, node_id, agora) ==
    IF Registrado(nodes, node_id)
    THEN [storage_nodes |->
              [nodes EXCEPT ![PosicaoDe(nodes, node_id)].info =
                  [@ EXCEPT !.last_heartbeat = agora, !.status = "active"]],
          retorno |-> TRUE]
    ELSE [storage_nodes |-> nodes, retorno |-> FALSE]

get_system_status(nodes, metadata) ==
    [active_nodes |->
         Cardinality({k \in 1..Len(nodes) : nodes[k].info.status = "active"}),
     total_nodes |-> Len(nodes),
     total_images |-> Cardinality(DOMAIN metadata)]

\* variant of the loop body that drops the node instead of marking it
verificar_no_removendo(nodes, k, current_time) ==
    IF current_time - nodes[k].info.last_heartbeat > TEMPO_LIMITE_BATIMENTO
    THEN deregister_storage_node(nodes, nodes[k].node_id).storage_nodes
    ELSE nodes

\* variant of the loop body that also marks a heartbeat exactly at the limit
verificar_no_no_limite(nodes, k, current_time) ==
    IF current_time - nodes[k].info.last_heartbeat >= TEMPO_LIMITE_BATIMENTO
    THEN [nodes EXCEPT ![k].info.status = "inactive"]
    ELSE nodes

\* the body of the loop of _check_node_health for the k-th item
verificar_no(nodes, k, current_time) ==
    IF current_time - nodes[k].info.last_heartbeat > TEMPO_LIMITE_BATIMENTO
    THEN [nodes EXCEPT ![k].info.status = "inactive"]
    ELSE nodes

\* the health thread outside the lock, in time.sleep
Dormindo == [pc |-> "dormindo", current_time |-> 0, proximo |-> 0]

\* the health thread inside the lock, about to visit item proximo
Varrendo(current_time, proximo) ==
    [pc |-> "varrendo", current_time |-> current_time, proximo |-> proximo]

----------------------------------------------------------------------------
(* PubSub (pubsub.py): subscriptions, publication, failure detection and
   reconfiguration over the data_nodes of a Cluster. assinantes is the list
   of the dict's items in insertion order, each a topic with its list of
   callbacks. A delivery is one invocation of a callback. *)

\* a in b for two Python strings
EstaContido(a, b) ==
    \E i \in 0..(Len(b) - Len(a)) : SubSeq(b, i + 1, i + Len(a)) = a

TemTopico(assinantes_, topico) ==
    \E k \in 1..Len(assinantes_) : assinantes_[k].topico = topico

assinar(assinantes_, topico, callback) ==
    IF TemTopico(assinantes_, topico)
    THEN [k \in 1..Len(assinantes_) |->
             IF assinantes_[k].topico = topico
             THEN [assinantes_[k] EXCEPT !.callbacks = Append(@, callback)]
             ELSE assinantes_[k]]
    ELSE Append(assinantes_, [topico |-> topico, callbacks |-> <<callback>>])

\* the callbacks that raise when they are invoked
CallbacksQueLevantam == {"c2"}

Entrega(callback, topico_registrado, dados) ==
    [callback |-> callback, topico_registrado |-> topico_registrado,
     dados |-> dados, levantou |-> callback \in CallbacksQueLevantam]

\* the inner loop: every callback of one item is invoked, a raise is logged
EntregasDoItem(item, dados) ==
    [j \in 1..Len(item.callbacks) |->
        Entrega(item.callbacks[j], item.topico, dados)]

\* PubSub.publicar_evento: the invocations it makes, in order
RECURSIVE publicar_evento(_, _, _)
publicar_evento(assinantes_, topico, dados) ==
    IF assinantes_ = <<>> THEN <<>>
    ELSE (IF EstaContido(Head(assinantes_).topico, topico)
          THEN EntregasDoItem(Head(assinantes_), dados)
          ELSE <<>>)
         \o publicar_evento(Tail(assinantes_), topico, dados)

\* one call of publicar_evento as the model records it
Publicado(assinantes_, topico, dados) ==
    [eventos |-> <<[topico |-> topico, dados |-> dados]>>,
     invocacoes |-> publicar_evento(assinantes_, topico, dados)]

NadaPublicado == [eventos |-> <<>>, invocacoes |-> <<>>]

\* variant of the health test that accepts a cpu reading at its limit
verificar_saude_datanode_com_igual(leitura) ==
    IF ~leitura.ok THEN FALSE
    ELSE leitura.cpu <= 80 /\ leitura.memoria < 90 /\ leitura.disco < 95

\* PubSub._verificar_saude_datanode, given what the probe answers
verificar_saude_datanode(leitura) ==
    IF ~leitura.ok THEN FALSE
    ELSE leitura.cpu < 80 /\ leitura.memoria < 90 /\ leitura.disco < 95

\* an entry of datanodes_com_falha; the address of a node is written as the
\* node's number
Falha(id_datanode) == [id |-> id_datanode, endereco |-> id_datanode]

EventoDeFalha(id_datanode) ==
    [datanode_id |-> id_datanode, endereco |-> id_datanode]

\* no call of detectar_falha_datanode is in progress
Parada ==
    [pc |-> "parada", tamanho |-> 0, pos |-> 0, datanodes_com_falha |-> <<>>]

\* the for loop of detectar_falha_datanode: the dict iterator has given pos
\* items of a dict that had tamanho items when the loop began
Iterando(tamanho, pos, datanodes_com_falha) ==
    [pc |-> "iterando", tamanho |-> tamanho, pos |-> pos,
     datanodes_com_falha |-> datanodes_com_falha]

\* variant of the loop body that takes a node with a failure out of the map
detectar_iterar_removendo(nodes, det, assinantes_, leitura) ==
    IF verificar_saude_datanode(leitura)
    THEN [data_nodes |-> nodes,
          deteccao |-> Iterando(det.tamanho, det.pos + 1,
                                det.datanodes_com_falha),
          entregas |-> NadaPublicado]
    ELSE [data_nodes |-> SelectSeq(nodes, LAMBDA n : n # nodes[det.pos + 1]),
          deteccao |-> Iterando(det.tamanho - 1, det.pos,
                                Append(det.datanodes_com_falha,
                                       Falha(nodes[det.pos + 1]))),
          entregas |-> Publicado(assinantes_, "falha_datanode",
                                 EventoDeFalha(nodes[det.pos + 1]))]

\* the body of the for loop of detectar_falha_datanode for the next item,
\* given what the probe answers: for a node that is not healthy the append
\* and the publication
detectar_iterar(nodes, det, assinantes_, leitura) ==
    IF verificar_saude_datanode(leitura)
    THEN [data_nodes |-> nodes,
          deteccao |-> Iterando(det.tamanho, det.pos + 1,
                                det.datanodes_com_falha),
          entregas |-> NadaPublicado]
    ELSE [data_nodes |-> nodes,
          deteccao |-> Iterando(det.tamanho, det.pos + 1,
                                Append(det.datanodes_com_falha,
                                       Falha(nodes[det.pos + 1]))),
          entregas |-> Publicado(assinantes_, "falha_datanode",
                                 EventoDeFalha(nodes[det.pos + 1]))]

\* del self.cluster.data_nodes[datanode['id']] for the entries of the list
\* in order; a key that is not in the dict raises KeyError
RECURSIVE RemoverFalhos(_, _)
RemoverFalhos(nodes, datanodes_falhos) ==
    IF datanodes_falhos = <<>> THEN [data_nodes |-> nodes, erro |-> FALSE]
    ELSE IF \A k \in 1..Len(nodes) : nodes[k] # Head(datanodes_falhos).id
         THEN [data_nodes |-> nodes, erro |-> TRUE]
         ELSE RemoverFalhos(SelectSeq(nodes,
                                LAMBDA n : n # Head(datanodes_falhos).id),
                            Tail(datanodes_falhos))

\* hasattr(self.cluster, 'connect_cluster'): the Cluster of server.py and the
\* Cluster of cluster.py define conectar_cluster, not connect_cluster
ClusterTemConnectCluster == FALSE

\* PubSub.reconfigurar_cluster: the removals, then the call of
\* self.cluster.connect_cluster(), then the publication; any raise ends the
\* call in the except branch
reconfigurar_cluster(nodes, assinantes_, datanodes_falhos) ==
    LET r == RemoverFalhos(nodes, datanodes_falhos)
    IN  IF r.erro \/ ~ClusterTemConnectCluster
        THEN [data_nodes |-> r.data_nodes, reconectou |-> FALSE,
              entregas |-> NadaPublicado]
        ELSE [data_nodes |-> r.data_nodes, reconectou |-> TRUE,
              entregas |-> Publicado(assinantes_, "reconfigurar_cluster",
                               [datanodes_removidos |-> datanodes_falhos])]

----------------------------------------------------------------------------
(* ClientInterface (client_interface.py): upload_image. The distribution the
   coordinator returns is the dict distribute_fragments built, whose keys are
   the ints 0, 1, ...; the client looks a fragment up under str(fragment_id).
   A dict key is written as a Python value with its type. *)

PyInt(i) == [tipo |-> "int", b |-> <<>>, s |-> "", i |-> i]

Algarismos == <<"0", "1", "2", "3", "4", "5", "6", "7", "8", "9">>

\* str(i) for an int i >= 0
RECURSIVE str(_)
str(i) ==
    IF i < 10 THEN Algarismos[i + 1]
    ELSE str(i \div 10) \o Algarismos[(i % 10) + 1]

\* distribution.get(chave, padrao) on a dict whose keys are ints: a str is
\* never equal to an int
dict_get(d, chave, padrao) ==
    IF chave.tipo = "int" /\ chave.i \in DOMAIN d THEN d[chave.i]
    ELSE padrao

\* the loop "for node_address in nodes" with its else branch: the first
\* node that answers True ends it
RECURSIVE PrimeiroQueAceita(_, _)
PrimeiroQueAceita(nodes, resp) ==
    IF nodes = <<>> THEN None
    ELSE IF resp[Head(nodes)] = "ok" THEN Some(Head(nodes))
    ELSE PrimeiroQueAceita(Tail(nodes), resp)

InterfaceOciosa ==
    [pc |-> "ociosa", image_name |-> None, dados |-> <<>>, pos |-> 0,
     fragment_id |-> 0, num_fragments |-> 0, distribution |-> <<>>,
     gravados |-> <<>>, recusas |-> 0, concluiu |-> FALSE,
     retorno |-> None]

----------------------------------------------------------------------------
(* Two clients of one Server instance. The Server keeps one upload and
   download state (server.py, _reiniciar_estado_upload), whoever calls. *)

Clientes == {"A", "B"}

NenhumaSessao ==
    [chamador |-> "A", iniciou |-> [c \in Clientes |-> None]]

----------------------------------------------------------------------------
(* Initial state: Server.__init__ (with _reiniciar_estado_upload),
   DataNode.__init__ on empty storage directories, CoordinatorNode.__init__ *)

ClienteOcioso(destino, enviados, sem_falha) ==
    [pc |-> "ocioso", nome |-> None, dados |-> <<>>, pos |-> 0, indice |-> 0,
     divisoes |-> 0, destino |-> destino, enviados |-> enviados,
     sem_falha |-> sem_falha]

InitCom(quota) ==
    /\ tabela_indice = <<>>
    /\ tem_nome_imagem_atual = TRUE
    /\ nome_imagem_atual = None
    /\ tamanho_imagem = None
    /\ indice_fragmento = None
    /\ divisoes_imagem = None
    /\ nos_selecionados = None
    /\ arquivos = [n \in DataNodes |-> <<>>]
    /\ current_storage_mb = [n \in DataNodes |-> 0]
    /\ max_storage_mb = quota
    /\ ultimo_inicio = "nenhum"
    /\ upload_aberto = FALSE
    /\ image_metadata = <<>>
    /\ nos_fragmentos = <<>>
    /\ tamanho_fragmentos = <<>>
    /\ tamanho_imagem_models = <<>>
    /\ contagem = [tamanho |-> <<>>, divisoes |-> None, num_fragments |-> None]
    /\ cliente = ClienteOcioso(<<>>, <<>>, TRUE)
    /\ distribuicao = [primeira |-> None, ultima |-> None, outra |-> FALSE]
    /\ ranking = [leituras |-> <<>>, nos_pontuados |-> <<>>, retorno |-> <<>>]
    /\ storage_nodes = <<>>
    /\ relogio = 0
    /\ varredura = Dormindo
    /\ data_nodes = [i \in 1..NumDatanodes |-> i]
    /\ assinantes = <<>>
    /\ entregas = NadaPublicado
    /\ deteccao = Parada
    /\ interface = InterfaceOciosa
    /\ sessoes = NenhumaSessao
    /\ ret = Retorno("init", None, TRUE, "", PyNone, None)

Init == InitCom(MaxArmazenamento)

\* the nodes have room for the largest file
InitCliente == InitCom(MaxArquivo)

----------------------------------------------------------------------------
(* Server actions. Each action binds the handler's result once (r) and
   assigns its fields. The data nodes a call contacts answer in any of the three
   ways; the other nodes are not contacted, and a call that contacts no node
   draws no answer. A fragment submission stops at the first node that does
   not accept, so its inputs name at most one such node. *)

Elementos(lista) == {lista[i] : i \in 1..Len(lista)}

NosDe(slots) == UNION {Elementos(slots[i].nodes) : i \in 1..Len(slots)}

RespostasDe(contactados) ==
    {[n \in DataNodes |-> IF n \in contactados THEN f[n] ELSE "ok"] :
        f \in [contactados -> Respostas]}

UmaFalha(contactados) ==
    {[n \in DataNodes |-> "ok"]} \cup
    {[n \in DataNodes |-> IF n = m THEN r ELSE "ok"] :
        m \in contactados, r \in Respostas \ {"ok"}}

exposed_iniciar_upload ==
    \E nome \in Nomes, tamanho \in Tamanhos :
        \E r \in {iniciar_upload(nome, tamanho)} :
            /\ tabela_indice' = r.tabela
            /\ tem_nome_imagem_atual' = r.tem
            /\ nome_imagem_atual' = r.nome
            /\ tamanho_imagem' = r.tamanho
            /\ indice_fragmento' = r.indice
            /\ divisoes_imagem' = r.divisoes
            /\ nos_selecionados' = r.nos_sel
            /\ ultimo_inicio' = IF r.sucesso THEN "upload" ELSE ultimo_inicio
            /\ upload_aberto' = (r.sucesso \/ upload_aberto)
            /\ ret' = Retorno("iniciar_upload", Some(nome), r.sucesso,
                              IF r.sucesso THEN "" ELSE "ja_existente",
                              PyNone,
                              IF r.sucesso THEN r.divisoes ELSE None)
            /\ UNCHANGED <<nos, coord, outros>>

\* the nodes a fragment submission may contact
NosDoUpload ==
    IF tem_nome_imagem_atual /\ nos_selecionados # None
    THEN Elementos(Val(nos_selecionados)) ELSE {}

\* a retrieval contacts the first replica of the slot under the cursor
ContactaNo ==
    /\ CursorLegivel
    /\ Val(indice_fragmento) < Len(tabela_indice[Val(nome_imagem_atual)])
    /\ tabela_indice[Val(nome_imagem_atual)][Val(indice_fragmento) + 1].nodes
           # <<>>

exposed_upload_fragmento ==
    \E fragmento \in Fragmentos, indice \in Indices,
       resp \in UmaFalha(NosDoUpload) :
        \E r \in {upload_fragmento(fragmento, indice, resp)} :
            /\ tabela_indice' = r.tabela
            /\ arquivos' = r.est.arquivos
            /\ current_storage_mb' = r.est.current_storage_mb
            /\ ret' = Retorno("upload_fragmento", None, r.sucesso, r.motivo,
                              PyNone, None)
            /\ UNCHANGED <<sessao, historia, coord, outros>>

exposed_finalizar_upload ==
    \E r \in {finalizar_upload} :
        /\ tem_nome_imagem_atual' = r.tem
        /\ upload_aberto' = (upload_aberto /\ ~r.sucesso)
        /\ ret' = Retorno("finalizar_upload", None, r.sucesso,
                          IF r.sucesso THEN "" ELSE "nenhum_upload",
                          PyNone, None)
        /\ UNCHANGED <<tabela_indice, nome_imagem_atual, tamanho_imagem,
                       indice_fragmento, divisoes_imagem, nos_selecionados,
                       nos, ultimo_inicio, coord, outros>>

exposed_download_imagem ==
    \E nome \in Nomes :
        \E r \in {download_imagem(nome)} :
            /\ tem_nome_imagem_atual' = r.tem
            /\ nome_imagem_atual' = r.nome
            /\ indice_fragmento' = r.indice
            /\ tamanho_imagem' = r.tamanho
            /\ ultimo_inicio' = IF r.sucesso THEN "download" ELSE ultimo_inicio
            /\ ret' = Retorno("download_imagem", Some(nome), r.sucesso,
                              IF r.sucesso THEN "" ELSE "nao_encontrada",
                              PyNone, r.num)
            /\ UNCHANGED <<tabela_indice, divisoes_imagem, nos_selecionados,
                           nos, upload_aberto, coord,
                           outros>>

exposed_recuperar_fragmento ==
    \E resposta \in (IF ContactaNo THEN Respostas ELSE {"ok"}) :
        \E r \in {recuperar_fragmento(resposta)} :
            /\ indice_fragmento' = r.indice
            /\ ret' = Retorno("recuperar_fragmento", None,
                              r.valor.tipo = "bytes", r.caso, r.valor, None)
            /\ UNCHANGED <<tabela_indice, tem_nome_imagem_atual,
                           nome_imagem_atual, tamanho_imagem, divisoes_imagem,
                           nos_selecionados, nos, historia, coord,
                           outros>>

exposed_deletar_imagem ==
    \E nome \in Nomes :
    \E resp \in RespostasDe(IF nome \in DOMAIN tabela_indice
                            THEN NosDe(tabela_indice[nome]) ELSE {}) :
        \E r \in {deletar_imagem(nome, resp)} :
            /\ tabela_indice' = r.tabela
            /\ arquivos' = r.est.arquivos
            /\ current_storage_mb' = r.est.current_storage_mb
            /\ ret' = Retorno("deletar_imagem", Some(nome), r.sucesso, "",
                              PyNone, None)
            /\ UNCHANGED <<sessao, historia, coord, outros>>

Next ==
    \/ exposed_iniciar_upload
    \/ exposed_upload_fragmento
    \/ exposed_finalizar_upload
    \/ exposed_download_imagem
    \/ exposed_recuperar_fragmento
    \/ exposed_deletar_imagem

Spec == Init /\ [][Next]_vars

----------------------------------------------------------------------------
(* CoordinatorNode actions *)

exposed_initiate_upload ==
    \E image_name \in Nomes, total_size \in Tamanhos :
        \E r \in {initiate_upload(image_name, total_size)} :
            /\ image_metadata' = r.metadata
            /\ ret' = Retorno("initiate_upload", Some(image_name), r.sucesso,
                              "", PyNone, r.num)
            /\ UNCHANGED <<servidor, outros>>

exposed_complete_upload ==
    \E image_name \in Nomes :
        \E r \in {complete_upload(image_name)} :
            /\ image_metadata' = r.metadata
            /\ ret' = Retorno("complete_upload", Some(image_name), r.sucesso,
                              "", PyNone, None)
            /\ UNCHANGED <<servidor, outros>>

exposed_delete_image ==
    \E image_name \in Nomes :
        \E r \in {delete_image(image_name)} :
            /\ image_metadata' = r.metadata
            /\ ret' = Retorno("delete_image", Some(image_name), r.sucesso,
                              "", PyNone, None)
            /\ UNCHANGED <<servidor, outros>>

exposed_initiate_download ==
    \E image_name \in Nomes :
        \E r \in {initiate_download(image_name)} :
            /\ ret' = Retorno("initiate_download", Some(image_name),
                              r.sucesso, "", PyNone, r.num)
            /\ UNCHANGED <<servidor, coord, outros>>

NextCoord ==
    \/ exposed_initiate_download
    \/ exposed_initiate_upload
    \/ exposed_complete_upload
    \/ exposed_delete_image

SpecCoord == Init /\ [][NextCoord]_vars

----------------------------------------------------------------------------
(* The fragment tables called directly: the methods of the Cluster table
   (the same in server.py and cluster.py) and of Models, with any name,
   index, size and node list as arguments. *)

Divisoes == 0..MaxDivisoes
TamanhosDeFragmento == 1..TAMANHO_FRAGMENTO
ListasDeNos == {<<>>, <<1>>, <<1, 2>>}
\* the objects of one table do not depend on each other: one name is used
NomesDeTabela == {"a"}

Cluster_iniciar_tabela_indice ==
    \E nome \in NomesDeTabela, divisoes \in Divisoes :
        \E r \in {iniciar_tabela_indice(tabela_indice, nome, divisoes)} :
            /\ tabela_indice' = r.tabela
            /\ ret' = Retorno("Cluster.iniciar_tabela_indice", Some(nome),
                              r.ok, "", PyNone, None)
            /\ UNCHANGED <<sessao, nos, historia, coord, outros>>

Cluster_atualizar_tabela_indice ==
    \E nome \in NomesDeTabela, indice \in Indices,
       tamanho \in TamanhosDeFragmento, nos_frag \in ListasDeNos :
        \E ok \in {PodeAtualizar(tabela_indice, Some(nome), indice)} :
            /\ tabela_indice' =
                   IF ok THEN atualizar_tabela_indice(tabela_indice, nome,
                                                      indice, tamanho, nos_frag)
                   ELSE tabela_indice
            /\ ret' = Retorno("Cluster.atualizar_tabela_indice", Some(nome),
                              ok, "", PyNone, None)
            /\ UNCHANGED <<sessao, nos, historia, coord, outros>>

AtribuirModels(m) ==
    /\ nos_fragmentos' = m.nos_fragmentos
    /\ tamanho_fragmentos' = m.tamanho_fragmentos
    /\ tamanho_imagem_models' = m.tamanho_imagem

Models_iniciar_imagem ==
    \E nome \in NomesDeTabela, divisoes \in Divisoes :
        \E r \in {iniciar_imagem(ModelsEstado, nome, divisoes)} :
            /\ AtribuirModels(r.m)
            /\ ret' = Retorno("Models.iniciar_imagem", Some(nome), r.ok, "",
                              PyNone, None)
            /\ UNCHANGED <<servidor, coord, contagem, max_storage_mb, cliente, demais>>

\* the running total is capped at MaxTotal
Models_atualizar_fragmento ==
    \E nome \in NomesDeTabela, indice \in Indices,
       tamanho \in TamanhosDeFragmento, nos_frag \in ListasDeNos :
        /\ obter_tamanho_imagem(ModelsEstado, nome) + tamanho <= MaxTotal
        /\ \E r \in {atualizar_fragmento(ModelsEstado, nome, indice, tamanho,
                                         nos_frag)} :
            /\ AtribuirModels(r.m)
            /\ ret' = Retorno("Models.atualizar_fragmento", Some(nome), r.ok,
                              "", PyNone, None)
            /\ UNCHANGED <<servidor, coord, contagem, max_storage_mb, cliente, demais>>

Models_remover_imagem ==
    \E nome \in NomesDeTabela :
        \E r \in {remover_imagem(ModelsEstado, nome)} :
            /\ AtribuirModels(r.m)
            /\ ret' = Retorno("Models.remover_imagem", Some(nome), r.ok, "",
                              PyNone, None)
            /\ UNCHANGED <<servidor, coord, contagem, max_storage_mb, cliente, demais>>

NextTabelas ==
    \/ Cluster_iniciar_tabela_indice
    \/ Cluster_atualizar_tabela_indice
    \/ Models_iniciar_imagem
    \/ Models_atualizar_fragmento
    \/ Models_remover_imagem

SpecTabelas == Init /\ [][NextTabelas]_vars

----------------------------------------------------------------------------
(* The two initiations called with a size in bytes: each records the size
   and the count it reports, and keeps the other's count for the same size *)

Deslocamentos == {0, BITS_FRAGMENTO, BITS_FRAGMENTO + 1, MANTISSA}
Restos == {0, 1, 2, 3, 2097151}

\* n * 2^k + d for the leading parts, shifts and low parts above
TamanhosEmBytes ==
    {Normalizar(Bits(n) \o EmBits(d, k)) :
        n \in 0..MaxMultiplo,
        k \in Deslocamentos \ {0},
        d \in Restos}
    \cup {Bits(n) : n \in 0..MaxMultiplo}

Server_divisoes ==
    \E tamanho \in TamanhosEmBytes :
        /\ contagem' =
               [tamanho |-> tamanho,
                divisoes |-> Some(divisoes_do_server(tamanho)),
                num_fragments |-> IF tamanho = contagem.tamanho
                                  THEN contagem.num_fragments ELSE None]
        /\ ret' = Retorno("Server.divisoes", None, TRUE, "", PyNone, None)
        /\ UNCHANGED <<servidor, coord, tabelas, max_storage_mb, cliente, demais>>

Coord_num_fragments ==
    \E total_size \in TamanhosEmBytes :
        /\ contagem' =
               [tamanho |-> total_size,
                divisoes |-> IF total_size = contagem.tamanho
                             THEN contagem.divisoes ELSE None,
                num_fragments |-> Some(num_fragments_do_coord(total_size))]
        /\ ret' = Retorno("Coord.num_fragments", None, TRUE, "", PyNone, None)
        /\ UNCHANGED <<servidor, coord, tabelas, max_storage_mb, cliente, demais>>

NextDivisoes ==
    \/ Server_divisoes
    \/ Coord_num_fragments

SpecDivisoes == Init /\ [][NextDivisoes]_vars

----------------------------------------------------------------------------
(* ClienteImagem (client.py) against the Server. One client runs one call at
   a time; a call is a sequence of steps, one per remote call it makes.
   cliente.pc is the call in progress, cliente.dados the local file being
   uploaded and cliente.pos the read position in it, cliente.indice the loop
   index of the upload, cliente.destino the files of the destination
   directory. cliente.enviados (the files of the uploads that returned True)
   and cliente.sem_falha (every node answered the current download) are
   history. *)

\* the local files: MiB i of a file holds the value i
ArquivosLocais == {[i \in 1..k |-> i] : k \in 0..MaxArquivo}

\* variant of the read that returns the rest of the file
read_sem_corte(dados, pos, n) == SubSeq(dados, pos + 1, Len(dados))

\* arquivo.read(n) at position pos
read(dados, pos, n) ==
    SubSeq(dados, pos + 1, IF pos + n < Len(dados) THEN pos + n ELSE Len(dados))

\* upload_imagem up to the loop: iniciar_upload
Cliente_upload_imagem ==
    /\ cliente.pc = "ocioso"
    /\ \E nome \in Nomes, dados \in ArquivosLocais :
        \E r \in {iniciar_upload(nome, Len(dados))} :
            /\ tabela_indice' = r.tabela
            /\ tem_nome_imagem_atual' = r.tem
            /\ nome_imagem_atual' = r.nome
            /\ tamanho_imagem' = r.tamanho
            /\ indice_fragmento' = r.indice
            /\ divisoes_imagem' = r.divisoes
            /\ nos_selecionados' = r.nos_sel
            /\ ultimo_inicio' = IF r.sucesso THEN "upload" ELSE ultimo_inicio
            /\ upload_aberto' = (r.sucesso \/ upload_aberto)
            /\ cliente' = IF r.sucesso
                          THEN [cliente EXCEPT !.pc = "upload",
                                               !.nome = Some(nome),
                                               !.dados = dados,
                                               !.pos = 0,
                                               !.indice = 0,
                                               !.divisoes = Val(r.divisoes)]
                          ELSE cliente
            /\ ret' = Retorno("Cliente.upload_imagem", Some(nome), FALSE,
                              IF r.sucesso THEN "em_curso" ELSE "ja_existente",
                              PyNone, None)
            /\ UNCHANGED <<nos, coord, tabelas, contagem, max_storage_mb, demais>>

\* the loop has a fragment to send
TemFragmento ==
    /\ cliente.indice < cliente.divisoes
    /\ read(cliente.dados, cliente.pos, TAMANHO_FRAGMENTO) # <<>>

\* one turn of the loop: read and upload_fragmento
Cliente_upload_fragmento ==
    /\ cliente.pc = "upload"
    /\ TemFragmento
    /\ \E resp \in UmaFalha(NosDoUpload) :
        \E fragmento \in {read(cliente.dados, cliente.pos, TAMANHO_FRAGMENTO)} :
        \E r \in {upload_fragmento(fragmento, cliente.indice, resp)} :
            /\ tabela_indice' = r.tabela
            /\ arquivos' = r.est.arquivos
            /\ current_storage_mb' = r.est.current_storage_mb
            /\ cliente' = IF r.sucesso
                          THEN [cliente EXCEPT !.pos = @ + Len(fragmento),
                                               !.indice = @ + 1]
                          ELSE ClienteOcioso(cliente.destino, cliente.enviados,
                                             cliente.sem_falha)
            /\ ret' = Retorno("Cliente.upload_imagem", cliente.nome, FALSE,
                              IF r.sucesso THEN "em_curso" ELSE r.motivo,
                              PyNone, None)
            /\ UNCHANGED <<sessao, historia, coord, tabelas, contagem,
                           max_storage_mb, demais>>

\* the end of the loop: finalizar_upload and the return
Cliente_upload_finalizar ==
    /\ cliente.pc = "upload"
    /\ ~TemFragmento
    /\ \E r \in {finalizar_upload} :
        /\ tem_nome_imagem_atual' = r.tem
        /\ upload_aberto' = (upload_aberto /\ ~r.sucesso)
        /\ cliente' = ClienteOcioso(
                          cliente.destino,
                          IF r.sucesso
                          THEN Atribuir(cliente.enviados, Val(cliente.nome),
                                        cliente.dados)
                          ELSE cliente.enviados,
                          cliente.sem_falha)
        /\ ret' = Retorno("Cliente.upload_imagem", cliente.nome, r.sucesso,
                          IF r.sucesso THEN "" ELSE "nenhum_upload",
                          PyNone, None)
        /\ UNCHANGED <<tabela_indice, nome_imagem_atual, tamanho_imagem,
                       indice_fragmento, divisoes_imagem, nos_selecionados,
                       nos, ultimo_inicio, coord, tabelas, contagem,
                       max_storage_mb, demais>>

\* download_imagem up to the loop: download_imagem of the Server, open(.., 'wb')
Cliente_download_imagem ==
    /\ cliente.pc = "ocioso"
    /\ \E nome \in Nomes :
        \E r \in {download_imagem(nome)} :
            /\ tem_nome_imagem_atual' = r.tem
            /\ nome_imagem_atual' = r.nome
            /\ indice_fragmento' = r.indice
            /\ tamanho_imagem' = r.tamanho
            /\ ultimo_inicio' = IF r.sucesso THEN "download" ELSE ultimo_inicio
            /\ cliente' = IF r.sucesso
                          THEN [cliente EXCEPT
                                    !.pc = "download",
                                    !.nome = Some(nome),
                                    !.indice = 0,
                                    !.destino = Atribuir(@, nome, <<>>),
                                    !.sem_falha = TRUE]
                          ELSE cliente
            /\ ret' = Retorno("Cliente.download_imagem", Some(nome), FALSE,
                              IF r.sucesso THEN "em_curso" ELSE "nao_encontrada",
                              PyNone, None)
            /\ UNCHANGED <<tabela_indice, divisoes_imagem, nos_selecionados,
                           nos, upload_aberto, coord, tabelas, contagem,
                           max_storage_mb, demais>>

\* one turn of the loop "while True": recuperar_fragmento, then the three tests
Cliente_download_fragmento ==
    /\ cliente.pc = "download"
    /\ \E resposta \in (IF ContactaNo THEN Respostas ELSE {"ok"}) :
        \E r \in {recuperar_fragmento(resposta)} :
            /\ indice_fragmento' = r.indice
            /\ cliente' =
                   IF r.valor = PyStr("erro")
                   THEN ClienteOcioso(Apagar(cliente.destino, Val(cliente.nome)),
                                      cliente.enviados,
                                      cliente.sem_falha /\ resposta = "ok")
                   ELSE IF r.valor = FimDeStream
                   THEN ClienteOcioso(cliente.destino, cliente.enviados,
                                      cliente.sem_falha /\ resposta = "ok")
                   ELSE [cliente EXCEPT
                            !.destino[Val(cliente.nome)] =
                                IF Truthy(r.valor) THEN @ \o r.valor.b ELSE @,
                            !.indice =
                                IF Truthy(r.valor) THEN @ + 1 ELSE @,
                            !.sem_falha = @ /\ resposta = "ok"]
            /\ ret' = Retorno("Cliente.download_imagem", cliente.nome,
                              r.valor = FimDeStream,
                              IF r.valor = PyStr("erro") THEN "erro"
                              ELSE IF r.valor = FimDeStream THEN ""
                              ELSE "em_curso",
                              PyNone, None)
            /\ UNCHANGED <<tabela_indice, tem_nome_imagem_atual,
                           nome_imagem_atual, tamanho_imagem, divisoes_imagem,
                           nos_selecionados, nos, historia, coord, tabelas,
                           contagem, max_storage_mb, demais>>

NextCliente ==
    \/ Cliente_upload_imagem
    \/ Cliente_upload_fragmento
    \/ Cliente_upload_finalizar
    \/ Cliente_download_imagem
    \/ Cliente_download_fragmento

SpecCliente == InitCliente /\ [][NextCliente]_vars

----------------------------------------------------------------------------
(* The Server's upload and download handlers with a fragment submission
   whose bytes may be empty; the outcome of a submission records its index. *)

FragmentosQuaisquer == {<<>>, <<1>>}

exposed_upload_fragmento_qualquer ==
    \E fragmento \in FragmentosQuaisquer, indice \in Indices,
       resp \in UmaFalha(NosDoUpload) :
        \E r \in {upload_fragmento(fragmento, indice, resp)} :
            /\ tabela_indice' = r.tabela
            /\ arquivos' = r.est.arquivos
            /\ current_storage_mb' = r.est.current_storage_mb
            /\ ret' = Retorno("upload_fragmento", None, r.sucesso, r.motivo,
                              PyNone, Some(indice))
            /\ UNCHANGED <<sessao, historia, coord, outros>>

NextFragmentos ==
    \/ exposed_iniciar_upload
    \/ exposed_upload_fragmento_qualquer
    \/ exposed_download_imagem
    \/ exposed_recuperar_fragmento

SpecFragmentos == Init /\ [][NextFragmentos]_vars

----------------------------------------------------------------------------
(* DataDistributor._select_nodes_for_fragment called with any list of
   distinct storage nodes in any order. distribuicao.primeira is the first
   call made and distribuicao.ultima the last one, each with its arguments
   and the list returned; distribuicao.outra tells that a call for another
   key than the first call's has been made. *)

NomesDeChave == {"b"}
IndicesDeChave == {0, 1}

\* the lists without repetition of one or more storage nodes
ListasDeNosDisponiveis ==
    {l \in UNION {[1..k -> 1..NumStorageNodes] : k \in 1..NumStorageNodes} :
        \A i, j \in 1..Len(l) : i # j => l[i] # l[j]}

Chamada(image_name, fragment_index, available_nodes) ==
    [image_name |-> image_name, fragment_index |-> fragment_index,
     available_nodes |-> available_nodes,
     selected_nodes |-> _select_nodes_for_fragment(image_name, fragment_index,
                                                   available_nodes)]

DataDistributor_select_nodes_for_fragment ==
    \E image_name \in NomesDeChave, fragment_index \in IndicesDeChave,
       available_nodes \in ListasDeNosDisponiveis :
        \E c \in {Chamada(image_name, fragment_index, available_nodes)} :
            /\ distribuicao' = [primeira |-> IF distribuicao.primeira = None
                                             THEN Some(c)
                                             ELSE distribuicao.primeira,
                                ultima |-> Some(c),
                                outra |->
                                    \/ distribuicao.outra
                                    \/ /\ distribuicao.primeira # None
                                       /\ <<image_name, fragment_index>> #
                                          <<Val(distribuicao.primeira).image_name,
                                            Val(distribuicao.primeira).fragment_index>>]
            /\ ret' = Retorno("_select_nodes_for_fragment", Some(image_name),
                              TRUE, "", PyNone, Some(fragment_index))
            /\ UNCHANGED <<servidor, coord, tabelas, contagem, max_storage_mb,
                           cliente, ranking, saude, monitor,
                       chamadas>>

NextDistribuicao == DataDistributor_select_nodes_for_fragment

SpecDistribuicao == Init /\ [][NextDistribuicao]_vars

----------------------------------------------------------------------------
(* The Cluster of cluster.py called as the Server calls its Cluster: nodes
   are selected, objects are entered in the table, and a fragment is recorded
   with the nodes the last selection returned. *)

\* a failed probe, and two different readings of equal score
Leituras ==
    {Leitura(FALSE, 0, 0, 0), Leitura(TRUE, 10, 90, 0),
     Leitura(TRUE, 40, 50, 0)}

Cluster_selecionar_nos_armazenamento ==
    \E leituras \in [DataNodes -> Leituras] :
        /\ ranking' = cluster_py_selecionar_nos_armazenamento(leituras)
        /\ ret' = Retorno("Cluster.selecionar_nos_armazenamento", None, TRUE,
                          "", PyNone, Some(Len(ranking'.retorno)))
        /\ UNCHANGED <<servidor, coord, tabelas, contagem, max_storage_mb,
                       cliente, distribuicao, saude, monitor,
                       chamadas>>

Cluster_atualizar_com_selecionados ==
    /\ ranking.retorno # <<>>
    /\ \E nome \in NomesDeTabela, indice \in {0},
          tamanho \in {TAMANHO_FRAGMENTO} :
        \E ok \in {PodeAtualizar(tabela_indice, Some(nome), indice)} :
            /\ tabela_indice' =
                   IF ok THEN atualizar_tabela_indice(tabela_indice, nome,
                                                      indice, tamanho,
                                                      ranking.retorno)
                   ELSE tabela_indice
            /\ ret' = Retorno("Cluster.atualizar_tabela_indice", Some(nome),
                              ok, "", PyNone, None)
            /\ UNCHANGED <<sessao, nos, historia, coord, outros>>

NextRanking ==
    \/ Cluster_selecionar_nos_armazenamento
    \/ Cluster_iniciar_tabela_indice
    \/ Cluster_atualizar_com_selecionados

SpecRanking == Init /\ [][NextRanking]_vars

----------------------------------------------------------------------------
(* The registry of the CoordinatorNode with its health thread. The three
   handlers that take self.lock run while the thread sleeps, each as one
   step; a pass of the thread holds the lock from its reading of the clock to
   its last item, one item a step; get_system_status takes no lock and runs
   at any point. A reading of time.time() gives the latest reading or a later
   instant. *)

NodeIds == {"s1", "s2"}
Enderecos == {"e1"}
Instantes == {15 * k : k \in 0..MaxRelogio}

exposed_register_storage_node ==
    /\ varredura.pc = "dormindo"
    /\ \E node_id \in NodeIds, address \in Enderecos, agora \in Instantes :
        /\ agora >= relogio
        /\ relogio' = agora
        /\ storage_nodes' =
               register_storage_node(storage_nodes, node_id, address, agora)
        /\ ret' = Retorno("register_storage_node", Some(node_id), TRUE, "",
                          PyNone, None)
        /\ UNCHANGED <<servidor, coord, tabelas, contagem, max_storage_mb,
                       cliente, distribuicao, ranking, monitor, chamadas,
                   varredura>>

exposed_deregister_storage_node ==
    /\ varredura.pc = "dormindo"
    /\ \E node_id \in NodeIds :
        \E r \in {deregister_storage_node(storage_nodes, node_id)} :
            /\ storage_nodes' = r.storage_nodes
            /\ ret' = Retorno("deregister_storage_node", Some(node_id),
                              r.retorno, "", PyNone, None)
            /\ UNCHANGED <<servidor, coord, tabelas, contagem, max_storage_mb,
                           cliente, distribuicao, ranking, monitor, chamadas,
                   relogio, varredura>>

exposed_heartbeat ==
    /\ varredura.pc = "dormindo"
    /\ \E node_id \in NodeIds, agora \in Instantes :
        /\ agora >= relogio
        /\ \E r \in {heartbeat(storage_nodes, node_id, agora)} :
            /\ storage_nodes' = r.storage_nodes
            \* time.time() is read only for a registered node
            /\ relogio' = IF Registrado(storage_nodes, node_id) THEN agora
                          ELSE relogio
            /\ ret' = Retorno("heartbeat", Some(node_id), r.retorno, "",
                              PyNone, None)
            /\ UNCHANGED <<servidor, coord, tabelas, contagem, max_storage_mb,
                           cliente, distribuicao, ranking, monitor, chamadas,
                   varredura>>

exposed_get_system_status ==
    /\ ret' = Retorno("get_system_status", None, TRUE, "", PyNone,
                      Some(get_system_status(storage_nodes, image_metadata)))
    /\ UNCHANGED <<servidor, coord, outros>>

\* with self.lock: current_time = time.time()
check_node_health_entrar ==
    /\ varredura.pc = "dormindo"
    /\ \E agora \in Instantes :
        /\ agora >= relogio
        /\ relogio' = agora
        /\ varredura' = Varrendo(agora, 1)
    /\ ret' = Retorno("_check_node_health", None, TRUE, "entrar", PyNone,
                      None)
    /\ UNCHANGED <<servidor, coord, tabelas, contagem, max_storage_mb,
                   cliente, distribuicao, ranking, monitor, chamadas,
                   storage_nodes>>

\* one iteration of the for loop
check_node_health_verificar ==
    /\ varredura.pc = "varrendo"
    /\ varredura.proximo <= Len(storage_nodes)
    /\ storage_nodes' = verificar_no(storage_nodes, varredura.proximo,
                                     varredura.current_time)
    /\ varredura' = Varrendo(varredura.current_time, varredura.proximo + 1)
    /\ ret' = Retorno("_check_node_health", None, TRUE, "verificar", PyNone,
                      Some(varredura.proximo))
    /\ UNCHANGED <<servidor, coord, tabelas, contagem, max_storage_mb,
                   cliente, distribuicao, ranking, monitor, chamadas,
                   relogio>>

\* the loop is over: the lock is released and the thread sleeps
check_node_health_dormir ==
    /\ varredura.pc = "varrendo"
    /\ varredura.proximo > Len(storage_nodes)
    /\ varredura' = Dormindo
    /\ ret' = Retorno("_check_node_health", None, TRUE, "dormir", PyNone,
                      None)
    /\ UNCHANGED <<servidor, coord, tabelas, contagem, max_storage_mb,
                   cliente, distribuicao, ranking, monitor, chamadas,
                   storage_nodes, relogio>>

check_node_health ==
    \/ check_node_health_entrar
    \/ check_node_health_verificar
    \/ check_node_health_dormir

NextSaude ==
    \/ exposed_register_storage_node
    \/ exposed_deregister_storage_node
    \/ exposed_heartbeat
    \/ exposed_get_system_status
    \/ check_node_health

SpecSaude == Init /\ [][NextSaude]_vars

\* the health thread is a thread of its own that the scheduler runs: it
\* gets the lock when it is free, and its sleep ends
SpecSaudeJusta == SpecSaude /\ WF_vars(check_node_health)

----------------------------------------------------------------------------
(* One PubSub over a Cluster. The monitoring thread calls
   detectar_falha_datanode again and again, one iteration of its loop a step;
   assinar, publicar_evento and reconfigurar_cluster are called from other
   threads, each as one step, also while a detection is in progress. *)

Topicos == {"falha_datanode", "reconfigurar_cluster", "falha"}
TopicosPublicados == {"falha_datanode", "teste"}
Callbacks == {"c1", "c2"}

\* a failed probe, a reading below the three limits and one reading at each
\* limit
LeiturasDeSaude ==
    {Leitura(FALSE, 0, 0, 0), Leitura(TRUE, 79, 89, 94),
     Leitura(TRUE, 80, 89, 94), Leitura(TRUE, 79, 90, 94),
     Leitura(TRUE, 79, 89, 95)}

ListasDeFalhos == {<<Falha(1)>>, <<Falha(1), Falha(2)>>}

NumAssinaturas ==
    LET RECURSIVE Soma(_)
        Soma(k) == IF k = 0 THEN 0
                   ELSE Len(assinantes[k].callbacks) + Soma(k - 1)
    IN  Soma(Len(assinantes))

PubSub_assinar ==
    /\ NumAssinaturas < MaxAssinaturas
    /\ \E topico \in Topicos, callback \in Callbacks :
        /\ assinantes' = assinar(assinantes, topico, callback)
        /\ ret' = Retorno("assinar", Some(topico), TRUE, callback, PyNone,
                          None)
        /\ UNCHANGED <<servidor, coord, tabelas, contagem, max_storage_mb,
                       cliente, distribuicao, ranking, saude, chamadas,
                       data_nodes, entregas, deteccao>>

PubSub_publicar_evento ==
    \E topico \in TopicosPublicados :
        /\ entregas' = Publicado(assinantes, topico, [mensagem |-> "m"])
        /\ ret' = Retorno("publicar_evento", Some(topico), TRUE, "", PyNone,
                          None)
        /\ UNCHANGED <<servidor, coord, tabelas, contagem, max_storage_mb,
                       cliente, distribuicao, ranking, saude, chamadas,
                       data_nodes, assinantes, deteccao>>

\* datanodes_com_falha = []; the for statement creates the dict iterator
PubSub_detectar_iniciar ==
    /\ deteccao.pc = "parada"
    /\ deteccao' = Iterando(Len(data_nodes), 0, <<>>)
    /\ ret' = Retorno("detectar_falha_datanode", None, TRUE, "iniciar",
                      PyNone, None)
    /\ UNCHANGED <<servidor, coord, tabelas, contagem, max_storage_mb,
                   cliente, distribuicao, ranking, saude, chamadas,
                   data_nodes, assinantes, entregas>>

\* one iteration of the loop
PubSub_detectar_iterar ==
    /\ deteccao.pc = "iterando"
    /\ Len(data_nodes) = deteccao.tamanho
    /\ deteccao.pos < Len(data_nodes)
    /\ \E leitura \in LeiturasDeSaude :
        \E r \in {detectar_iterar(data_nodes, deteccao, assinantes,
                                  leitura)} :
            /\ data_nodes' = r.data_nodes
            /\ deteccao' = r.deteccao
            /\ entregas' = r.entregas
            /\ ret' = Retorno("detectar_falha_datanode",
                              Some(data_nodes[deteccao.pos + 1]),
                              TRUE, "iterar", leitura, None)
    /\ UNCHANGED <<servidor, coord, tabelas, contagem, max_storage_mb,
                   cliente, distribuicao, ranking, saude, chamadas, assinantes>>

\* the iterator is exhausted: return datanodes_com_falha
PubSub_detectar_retornar ==
    /\ deteccao.pc = "iterando"
    /\ Len(data_nodes) = deteccao.tamanho
    /\ deteccao.pos = Len(data_nodes)
    /\ deteccao' = [deteccao EXCEPT !.pc = "parada"]
    /\ ret' = Retorno("detectar_falha_datanode", None, TRUE, "retornar",
                      PyNone, Some(deteccao.datanodes_com_falha))
    /\ UNCHANGED <<servidor, coord, tabelas, contagem, max_storage_mb,
                   cliente, distribuicao, ranking, saude, chamadas,
                   data_nodes, assinantes, entregas>>

\* the dict has changed size since the loop began: the iterator raises
\* RuntimeError, which leaves detectar_falha_datanode
PubSub_detectar_interromper ==
    /\ deteccao.pc = "iterando"
    /\ Len(data_nodes) # deteccao.tamanho
    /\ deteccao' = [deteccao EXCEPT !.pc = "parada"]
    /\ ret' = Retorno("detectar_falha_datanode", None, FALSE, "RuntimeError",
                      PyNone, None)
    /\ UNCHANGED <<servidor, coord, tabelas, contagem, max_storage_mb,
                   cliente, distribuicao, ranking, saude, chamadas,
                   data_nodes, assinantes, entregas>>

PubSub_detectar_falha_datanode ==
    \/ PubSub_detectar_iniciar
    \/ PubSub_detectar_iterar
    \/ PubSub_detectar_retornar
    \/ PubSub_detectar_interromper

PubSub_reconfigurar_cluster ==
    \E datanodes_falhos \in ListasDeFalhos :
        \E r \in {reconfigurar_cluster(data_nodes, assinantes,
                                       datanodes_falhos)} :
            /\ data_nodes' = r.data_nodes
            /\ entregas' = r.entregas
            /\ ret' = Retorno("reconfigurar_cluster", None, r.reconectou, "",
                              PyNone, Some(datanodes_falhos))
            /\ UNCHANGED <<servidor, coord, tabelas, contagem,
                           max_storage_mb, cliente, distribuicao, ranking,
                           saude, chamadas, assinantes, deteccao>>

NextPubSub ==
    \/ PubSub_assinar
    \/ PubSub_publicar_evento
    \/ PubSub_detectar_falha_datanode
    \/ PubSub_reconfigurar_cluster

SpecPubSub == Init /\ [][NextPubSub]_vars

----------------------------------------------------------------------------
(* A Server whose Cluster is watched by a PubSub. The Server's handlers are
   followed while data_nodes holds the nodes the Cluster was built with;
   detection and reconfiguration run at any point. *)

MapaCompleto == Len(data_nodes) = NumDatanodes

Server_iniciar_upload == MapaCompleto /\ exposed_iniciar_upload

Server_upload_fragmento == MapaCompleto /\ exposed_upload_fragmento

NextReconfiguracao ==
    \/ Server_iniciar_upload
    \/ Server_upload_fragmento
    \/ PubSub_detectar_falha_datanode
    \/ PubSub_reconfigurar_cluster

SpecReconfiguracao == Init /\ [][NextReconfiguracao]_vars

----------------------------------------------------------------------------
(* A caller that submits fragments to the Server, one call a step, and keeps
   the bytes and the index of its last submission, so that a submission with
   the arguments of the one before it is a retry. The nodes have room for
   several copies of a fragment. *)

Chamador_upload_fragmento ==
    \E fragmento \in Fragmentos, indice \in Indices,
       resp \in UmaFalha(NosDoUpload) :
        \E r \in {upload_fragmento(fragmento, indice, resp)} :
            /\ tabela_indice' = r.tabela
            /\ arquivos' = r.est.arquivos
            /\ current_storage_mb' = r.est.current_storage_mb
            /\ ret' = Retorno("upload_fragmento", nome_imagem_atual,
                              r.sucesso, r.motivo, PyBytes(fragmento),
                              Some(indice))
            /\ UNCHANGED <<sessao, historia, coord, outros>>

NextRepeticao ==
    \/ exposed_iniciar_upload
    \/ Chamador_upload_fragmento

SpecRepeticao == InitCliente /\ [][NextRepeticao]_vars

----------------------------------------------------------------------------
(* One ClientInterface uploading files through the CoordinatorNode, one
   remote call or one loop iteration a step. The storage nodes the client
   writes to answer True, False or not at all; other callers of the
   coordinator delete and look up images meanwhile. *)

ClientInterface_upload_image ==
    /\ interface.pc \in {"ociosa", "fim"}
    /\ \E image_name \in Nomes, dados \in ArquivosLocais :
        \E r \in {initiate_upload(image_name, Len(dados))} :
            /\ image_metadata' = r.metadata
            /\ interface' =
                   [pc |-> IF Val(r.num) = 0 THEN "concluindo"
                          ELSE "enviando",
                    image_name |-> Some(image_name), dados |-> dados,
                    pos |-> 0, fragment_id |-> 0,
                    num_fragments |-> Val(r.num),
                    distribution |-> r.metadata[image_name].distribution,
                    gravados |-> <<>>, recusas |-> 0, concluiu |-> FALSE,
                    retorno |-> None]
            /\ ret' = Retorno("upload_image", Some(image_name), TRUE,
                              "initiate_upload", PyNone, r.num)
    /\ UNCHANGED <<servidor, tabelas, contagem, max_storage_mb, cliente,
                   distribuicao, ranking, saude, monitor, sessoes>>

\* one iteration of "for fragment_id in range(num_fragments)"
ClientInterface_enviar_fragmento ==
    /\ interface.pc = "enviando"
    /\ \E resp \in [1..NumStorageNodes -> Respostas] :
        \E fragment_data \in {read(interface.dados, interface.pos,
                                   fragment_size)},
           nodes \in {dict_get(interface.distribution,
                               PyStr(str(interface.fragment_id)), <<>>)} :
            /\ interface' =
                   IF fragment_data = <<>>
                   THEN [interface EXCEPT !.pc = "concluindo"]
                   ELSE IF nodes = <<>>
                   THEN [interface EXCEPT !.pc = "fim",
                                          !.pos = @ + Len(fragment_data),
                                          !.retorno = Some(FALSE)]
                   ELSE IF PrimeiroQueAceita(nodes, resp) = None
                   THEN [interface EXCEPT !.pc = "fim",
                                          !.pos = @ + Len(fragment_data),
                                          !.recusas = 1,
                                          !.retorno = Some(FALSE)]
                   ELSE [interface EXCEPT
                            !.pc = IF interface.fragment_id + 1
                                       = interface.num_fragments
                                   THEN "concluindo" ELSE "enviando",
                            !.pos = @ + Len(fragment_data),
                            !.fragment_id = @ + 1,
                            !.gravados =
                                Append(@, [node |->
                                               Val(PrimeiroQueAceita(nodes,
                                                                     resp)),
                                           fragment_id |->
                                               str(interface.fragment_id),
                                           data |-> fragment_data])]
            /\ ret' = Retorno("upload_image", interface.image_name,
                              interface'.pc # "fim", "store_fragment",
                              PyNone, Some(interface.fragment_id))
    /\ UNCHANGED <<servidor, coord, tabelas, contagem, max_storage_mb,
                   cliente, distribuicao, ranking, saude, monitor, sessoes>>

\* after the loop: complete_upload
ClientInterface_concluir ==
    /\ interface.pc = "concluindo"
    /\ \E r \in {complete_upload(Val(interface.image_name))} :
        /\ image_metadata' = r.metadata
        /\ interface' = [interface EXCEPT !.pc = "fim",
                                          !.concluiu = TRUE,
                                          !.retorno = Some(r.sucesso)]
        /\ ret' = Retorno("upload_image", interface.image_name, r.sucesso,
                          "complete_upload", PyNone, None)
    /\ UNCHANGED <<servidor, tabelas, contagem, max_storage_mb, cliente,
                   distribuicao, ranking, saude, monitor, sessoes>>

NextInterface ==
    \/ ClientInterface_upload_image
    \/ ClientInterface_enviar_fragmento
    \/ ClientInterface_concluir
    \/ exposed_delete_image
    \/ exposed_initiate_download

SpecInterface == Init /\ [][NextInterface]_vars

----------------------------------------------------------------------------
(* Two clients calling the upload and download handlers of one Server
   instance in any order. No handler takes a lock or looks at who calls;
   each call is one step. *)

DoisClientes_iniciar_upload ==
    \E c \in Clientes, nome \in Nomes, tamanho \in Tamanhos :
        \E r \in {iniciar_upload(nome, tamanho)} :
            /\ tabela_indice' = r.tabela
            /\ tem_nome_imagem_atual' = r.tem
            /\ nome_imagem_atual' = r.nome
            /\ tamanho_imagem' = r.tamanho
            /\ indice_fragmento' = r.indice
            /\ divisoes_imagem' = r.divisoes
            /\ nos_selecionados' = r.nos_sel
            /\ ultimo_inicio' = IF r.sucesso THEN "upload" ELSE ultimo_inicio
            /\ upload_aberto' = (r.sucesso \/ upload_aberto)
            /\ sessoes' = [sessoes EXCEPT
                              !.chamador = c,
                              !.iniciou[c] =
                                  IF r.sucesso
                                  THEN Some([op |-> "upload", nome |-> nome])
                                  ELSE @]
            /\ ret' = Retorno("iniciar_upload", Some(nome), r.sucesso,
                              IF r.sucesso THEN "" ELSE "ja_existente",
                              PyNone,
                              IF r.sucesso THEN r.divisoes ELSE None)
            /\ UNCHANGED <<nos, coord, tabelas, contagem, max_storage_mb,
                           cliente, distribuicao, ranking, saude, monitor,
                           interface>>

DoisClientes_upload_fragmento ==
    \E c \in Clientes, fragmento \in Fragmentos, indice \in Indices,
       resp \in UmaFalha(NosDoUpload) :
        \E r \in {upload_fragmento(fragmento, indice, resp)} :
            /\ tabela_indice' = r.tabela
            /\ arquivos' = r.est.arquivos
            /\ current_storage_mb' = r.est.current_storage_mb
            /\ sessoes' = [sessoes EXCEPT !.chamador = c]
            /\ ret' = Retorno("upload_fragmento", nome_imagem_atual,
                              r.sucesso, r.motivo, PyBytes(fragmento),
                              Some(indice))
            /\ UNCHANGED <<sessao, historia, coord, tabelas, contagem,
                           max_storage_mb, cliente, distribuicao, ranking,
                           saude, monitor, interface>>

DoisClientes_download_imagem ==
    \E c \in Clientes, nome \in Nomes :
        \E r \in {download_imagem(nome)} :
            /\ tem_nome_imagem_atual' = r.tem
            /\ nome_imagem_atual' = r.nome
            /\ indice_fragmento' = r.indice
            /\ tamanho_imagem' = r.tamanho
            /\ ultimo_inicio' = IF r.sucesso THEN "download" ELSE ultimo_inicio
            /\ sessoes' = [sessoes EXCEPT
                              !.chamador = c,
                              !.iniciou[c] =
                                  IF r.sucesso
                                  THEN Some([op |-> "download",
                                             nome |-> nome])
                                  ELSE @]
            /\ ret' = Retorno("download_imagem", Some(nome), r.sucesso,
                              IF r.sucesso THEN "" ELSE "nao_encontrada",
                              PyNone, r.num)
            /\ UNCHANGED <<tabela_indice, divisoes_imagem, nos_selecionados,
                           nos, upload_aberto, coord, tabelas, contagem,
                           max_storage_mb, cliente, distribuicao, ranking,
                           saude, monitor, interface>>

DoisClientes_recuperar_fragmento ==
    \E c \in Clientes,
       resposta \in (IF ContactaNo THEN Respostas ELSE {"ok"}) :
        \E r \in {recuperar_fragmento(resposta)} :
            /\ indice_fragmento' = r.indice
            /\ sessoes' = [sessoes EXCEPT !.chamador = c]
            /\ ret' = Retorno("recuperar_fragmento", nome_imagem_atual,
                              r.valor.tipo = "bytes", r.caso, r.valor, None)
            /\ UNCHANGED <<tabela_indice, tem_nome_imagem_atual,
                           nome_imagem_atual, tamanho_imagem, divisoes_imagem,
                           nos_selecionados, nos, historia, coord, tabelas,
                           contagem, max_storage_mb, cliente, distribuicao,
                           ranking, saude, monitor, interface>>

NextDoisClientes ==
    \/ DoisClientes_iniciar_upload
    \/ DoisClientes_upload_fragmento
    \/ DoisClientes_download_imagem
    \/ DoisClientes_recuperar_fragmento

SpecDoisClientes == Init /\ [][NextDoisClientes]_vars

----------------------------------------------------------------------------
(* Properties *)

Rastreado(nome) == nome # None /\ Val(nome) \in DOMAIN tabela_indice

SlotRegistrado(slot) == slot.size # None /\ slot.nodes # <<>>

\* C1: exposed_iniciar_upload for a name that is already in the table
\* returns failure and leaves the table and every session field unchanged.
C1_IniciarDuplicadoRejeitado ==
    [][(ret'.op = "iniciar_upload" /\ Rastreado(ret'.nome))
        => /\ ~ret'.sucesso
           /\ tabela_indice' = tabela_indice
           /\ sessao' = sessao]_vars

\* a duplicate initiation answered while the object has a recorded fragment
\* and the session belongs to another object
C1_Witness ==
    /\ ret.op = "iniciar_upload"
    /\ ~ret.sucesso
    /\ Rastreado(ret.nome)
    /\ \E i \in 1..Len(tabela_indice[Val(ret.nome)]) :
           SlotRegistrado(tabela_indice[Val(ret.nome)][i])
    /\ nome_imagem_atual # None
    /\ nome_imagem_atual # ret.nome

\* C2: exposed_initiate_upload for a name already present in image_metadata
\* is rejected and the existing entry is unchanged.
C2_InitiateDuplicadoRejeitado ==
    [][(ret'.op = "initiate_upload"
        /\ Val(ret'.nome) \in DOMAIN image_metadata)
        => /\ ~ret'.sucesso
           /\ image_metadata'[Val(ret'.nome)]
                  = image_metadata[Val(ret'.nome)]]_vars

\* C3: a fragment submission during which a selected node rejects the write
\* or raises returns failure and leaves the table as it was; the table
\* changes only in a submission that returns success after every selected
\* node has taken the write.
C3_FragmentoSoComTodasAsReplicas ==
    [][ret'.op = "upload_fragmento"
        => /\ ret'.motivo \in {"no_rejeitou", "no_excecao"}
                => (~ret'.sucesso /\ tabela_indice' = tabela_indice)
           /\ tabela_indice' # tabela_indice
                => /\ ret'.sucesso
                   /\ nos_selecionados # None
                   /\ \A n \in Elementos(Val(nos_selecionados)) :
                          current_storage_mb'[n] > current_storage_mb[n]]_vars

\* the first selected node holds a fragment that the second one refused,
\* and the object's slots are all still empty
C3_Witness ==
    /\ ret.op = "upload_fragmento"
    /\ ~ret.sucesso
    /\ ret.motivo \in {"no_rejeitou", "no_excecao"}
    /\ nos_selecionados # None
    /\ current_storage_mb[Val(nos_selecionados)[1]]
           > current_storage_mb[Val(nos_selecionados)[2]]
    /\ Rastreado(nome_imagem_atual)
    /\ Len(tabela_indice[Val(nome_imagem_atual)]) > 0
    /\ \A i \in 1..Len(tabela_indice[Val(nome_imagem_atual)]) :
           tabela_indice[Val(nome_imagem_atual)][i] = SlotVazio

\* C4: every node listed in the replica set of slot (name, i) holds a file
\* under the key (name, i).
C4_ReplicasGuardamOFragmento ==
    \A nome \in DOMAIN tabela_indice :
        \A i \in 1..Len(tabela_indice[nome]) :
            \A n \in Elementos(tabela_indice[nome][i].nodes) :
                Existe(arquivos[n], _gerar_caminho_fragmento(Some(nome), i - 1))

\* a download session is still running: the last initiation was a download
\* and its cursor has not reached the end of the object
DownloadAtivo ==
    /\ ultimo_inicio = "download"
    /\ CursorLegivel
    /\ Val(indice_fragmento) < Len(tabela_indice[Val(nome_imagem_atual)])

\* C5: while an upload or a download session is active, exposed_iniciar_upload
\* and exposed_download_imagem do not replace the session's object name,
\* cursor or selected nodes.
C5_SessaoAtivaNaoSubstituida ==
    [][((upload_aberto \/ DownloadAtivo)
        /\ ret'.op \in {"iniciar_upload", "download_imagem"})
        => /\ nome_imagem_atual' = nome_imagem_atual
           /\ indice_fragmento' = indice_fragmento
           /\ nos_selecionados' = nos_selecionados]_vars

\* C6: exposed_upload_fragmento outside an upload session returns failure,
\* writes on no data node and leaves the table unchanged.
C6_FragmentoSemSessaoFalha ==
    [][(ret'.op = "upload_fragmento" /\ ~upload_aberto)
        => /\ ~ret'.sucesso
           /\ arquivos' = arquivos
           /\ tabela_indice' = tabela_indice]_vars

\* C7: exposed_finalizar_upload returns failure whenever no upload session
\* is active.
C7_FinalizarSemSessaoFalha ==
    [][(ret'.op = "finalizar_upload" /\ ~upload_aberto)
        => ~ret'.sucesso]_vars

\* the status of a tracked object, an entry without the key being pending
Status(metadata, nome) ==
    IF metadata[nome].status = None THEN "pending"
    ELSE Val(metadata[nome].status)

\* C8: an object is pending from its initiation until a finalize call for it
\* succeeds and complete from then on until it is deleted; only a successful
\* finalize makes an object complete.
C8_CompleteAteSerDeletado ==
    [][\A nome \in DOMAIN image_metadata' :
        /\ (nome \in DOMAIN image_metadata
            /\ Status(image_metadata, nome) = "complete")
               => Status(image_metadata', nome) = "complete"
        /\ (Status(image_metadata', nome) = "complete"
            /\ (nome \notin DOMAIN image_metadata
                \/ Status(image_metadata, nome) # "complete"))
               => (ret'.op = "complete_upload" /\ ret'.sucesso
                   /\ ret'.nome = Some(nome))]_vars

\* C9: in a download, a call of exposed_recuperar_fragmento at cursor i < n
\* that gets the fragment from the first replica returns the bytes stored
\* for fragment i and moves the cursor to i + 1, and the call at cursor n
\* returns the end-of-stream value.
C9_DownloadEmOrdemEFim ==
    [][(ret'.op = "recuperar_fragmento" /\ ultimo_inicio = "download"
        /\ CursorLegivel)
        => LET slots == tabela_indice[Val(nome_imagem_atual)]
               i == Val(indice_fragmento)
           IN  /\ (i < Len(slots) /\ ret'.motivo = "fragmento")
                     => /\ ret'.valor =
                              PyBytes(arquivos[slots[i + 1].nodes[1]][
                                  _gerar_caminho_fragmento(
                                      nome_imagem_atual, i)])
                        /\ indice_fragmento' = Some(i + 1)
               /\ i = Len(slots) => ret'.valor = FimDeStream]_vars

\* C10: the value returned at the end of the stream differs from the value
\* returned when a retrieval fails.
C10_FimDistintoDeFalha ==
    [][(ret'.op = "recuperar_fragmento" /\ ret'.motivo = "fim")
        => ret'.valor # RetornoDeFalha]_vars

\* C12: exposed_deletar_imagem for a tracked name removes the name from the
\* table, also when the delete call on a replica node raises.
C12_DeletarRemoveComNoInacessivel ==
    [][(ret'.op = "deletar_imagem"
        /\ Val(ret'.nome) \in DOMAIN tabela_indice)
        => Val(ret'.nome) \notin DOMAIN tabela_indice']_vars

\* C13: a delete call that removes a tracked object has sent a delete of
\* fragment (name, i) to every node of the replica set of every fragment i
\* of the object.
C13_DeleteEmitidoParaCadaReplica ==
    [][(ret'.op = "delete_image" /\ ret'.sucesso)
        => LET nome == Val(ret'.nome)
               distribution == image_metadata[nome].distribution
           IN  \A i \in DOMAIN distribution :
                   \A k \in 1..Len(distribution[i]) :
                       <<distribution[i][k], nome, i>>
                           \in delete_image(nome).emitidos]_vars

RECURSIVE SomaDosSlots(_)
SomaDosSlots(slots) ==
    IF slots = <<>> THEN 0
    ELSE (IF Head(slots).size = None THEN 0 ELSE Val(Head(slots).size))
         + SomaDosSlots(Tail(slots))

\* C20: exposed_download_imagem for a name that is not in the table returns
\* failure and leaves the session fields unchanged; for a tracked name it
\* sets the cursor to 0 and returns the sum of the recorded fragment sizes.
C20_DownloadImagem ==
    [][ret'.op = "download_imagem"
        => IF Val(ret'.nome) \notin DOMAIN tabela_indice
           THEN /\ ~ret'.sucesso
                /\ sessao' = sessao
           ELSE /\ ret'.sucesso
                /\ nome_imagem_atual' = ret'.nome
                /\ indice_fragmento' = Some(0)
                /\ ret'.num
                       = Some(SomaDosSlots(tabela_indice[Val(ret'.nome)]))]_vars

\* a download of an object with a recorded fragment is initiated while the
\* other name is not tracked
C20_Witness ==
    /\ ret.op = "download_imagem"
    /\ ret.sucesso
    /\ ret.num = Some(1)
    /\ indice_fragmento = Some(0)
    /\ DOMAIN tabela_indice = {Val(ret.nome)}

\* a node list grown from "antes" by appending only new nodes
Acrescida(antes, depois, novos) ==
    /\ Len(depois) >= Len(antes)
    /\ SubSeq(depois, 1, Len(antes)) = antes
    /\ Elementos(depois) = Elementos(antes) \cup Elementos(novos)
    /\ Cardinality(Elementos(depois)) = Len(depois)

\* C17: in both table implementations, recording a fragment twice with the
\* same (name, index, size, nodes) leaves the table, the object's total size
\* included, as recording it once does, and a recording appends only the new
\* nodes after the nodes the slot already has.
C17_RegistroIdempotente ==
    \A nome \in NomesDeTabela, indice \in Indices,
       tamanho \in TamanhosDeFragmento, nos_frag \in ListasDeNos :
        /\ PodeAtualizar(tabela_indice, Some(nome), indice)
             => LET uma == atualizar_tabela_indice(tabela_indice, nome, indice,
                                                   tamanho, nos_frag)
                    duas == atualizar_tabela_indice(uma, nome, indice,
                                                    tamanho, nos_frag)
                    p == PyIndex(tabela_indice[nome], indice)
                IN  /\ duas = uma
                    /\ tamanho_total_imagem(duas, nome)
                           = tamanho_total_imagem(uma, nome)
                    /\ Acrescida(tabela_indice[nome][p].nodes,
                                 uma[nome][p].nodes, nos_frag)
        /\ atualizar_fragmento(ModelsEstado, nome, indice, tamanho,
                               nos_frag).ok
             => LET uma == atualizar_fragmento(ModelsEstado, nome, indice,
                                               tamanho, nos_frag).m
                    duas == atualizar_fragmento(uma, nome, indice, tamanho,
                                                nos_frag).m
                    p == PyIndex(nos_fragmentos[nome], indice)
                IN  /\ duas = uma
                    /\ obter_tamanho_imagem(duas, nome)
                           = obter_tamanho_imagem(uma, nome)
                    /\ Acrescida(nos_fragmentos[nome][p],
                                 uma.nos_fragmentos[nome][p], nos_frag)

\* the sum of a list of sizes, an unset size counting 0
RECURSIVE SomaDeTamanhos(_)
SomaDeTamanhos(tamanhos) ==
    IF tamanhos = <<>> THEN 0
    ELSE (IF Head(tamanhos) = None THEN 0 ELSE Val(Head(tamanhos)))
         + SomaDeTamanhos(Tail(tamanhos))

\* C18: the total size reported for a tracked object is the sum of the sizes
\* recorded in its slots, in the Cluster table and in Models.
C18_TotalIgualASoma ==
    /\ \A nome \in DOMAIN tabela_indice :
           tamanho_total_imagem(tabela_indice, nome)
               = SomaDosSlots(tabela_indice[nome])
    /\ \A nome \in DOMAIN tamanho_fragmentos :
           obter_tamanho_imagem(ModelsEstado, nome)
               = SomaDeTamanhos(tamanho_fragmentos[nome])

\* C19: verificar_imagem_completa(name) is True only if the name is tracked
\* and every slot has a size and a non-empty node list.
C19_CompletaSoComTamanhoENos ==
    \A nome \in NomesDeTabela :
        verificar_imagem_completa(ModelsEstado, nome)
            => /\ nome \in DOMAIN nos_fragmentos
               /\ \A i \in 1..Len(nos_fragmentos[nome]) :
                      /\ tamanho_fragmentos[nome][i] # None
                      /\ nos_fragmentos[nome][i] # <<>>

\* ceil(size / 2^21) of a size in bytes
TetoExato(tamanho) ==
    LET q == DividirPorPotencia(tamanho, BITS_FRAGMENTO)
    IN  IF TemResto(tamanho, BITS_FRAGMENTO) THEN Somar(q, <<1>>) ELSE q

\* C15: for every size the Server and the CoordinatorNode report
\* ceil(size / fragment size) fragments, the same count in both.
C15_ContagemDeFragmentos ==
    /\ contagem.divisoes # None
          => Val(contagem.divisoes) = TetoExato(contagem.tamanho)
    /\ contagem.num_fragments # None
          => Val(contagem.num_fragments) = TetoExato(contagem.tamanho)
    /\ (contagem.divisoes # None /\ contagem.num_fragments # None)
          => contagem.divisoes = contagem.num_fragments

\* C16: after an upload by ClienteImagem.upload_imagem that returned True
\* (every fragment 0..count-1 submitted in order, cut at TAMANHO_FRAGMENTO, and
\* accepted), the table holds ceil(size / TAMANHO_FRAGMENTO) slots for the
\* name, their sizes add up to the file's size, every slot but the last has
\* size TAMANHO_FRAGMENTO, and every slot has a replica.
C16_UploadEmOrdem ==
    \A n \in DOMAIN cliente.enviados :
        /\ n \in DOMAIN tabela_indice
        /\ tamanho_total_imagem(tabela_indice, n) = Len(cliente.enviados[n])
        /\ Len(tabela_indice[n])
               = CeilDiv(Len(cliente.enviados[n]), TAMANHO_FRAGMENTO)
        /\ \A i \in 1..Len(tabela_indice[n]) :
               /\ tabela_indice[n][i].nodes # <<>>
               /\ tabela_indice[n][i].size # None
               /\ i < Len(tabela_indice[n])
                      => Val(tabela_indice[n][i].size) = TAMANHO_FRAGMENTO

\* an upload of a file of two fragments, the last one shorter, has returned True
C16_Witness ==
    /\ ret.op = "Cliente.upload_imagem"
    /\ ret.sucesso
    /\ Len(cliente.enviados[Val(ret.nome)]) = TAMANHO_FRAGMENTO + 1
    /\ Len(tabela_indice[Val(ret.nome)]) = 2

\* C11: ClienteImagem.download_imagem of an object whose upload returned True,
\* with every contacted node answering, returns True and leaves the file with
\* the fragments 0..n-1 in order, that is the uploaded file.
C11_DownloadDoCliente ==
    (/\ ret.op = "Cliente.download_imagem"
     /\ ret.motivo # "em_curso"
     /\ Val(ret.nome) \in DOMAIN cliente.enviados
     /\ cliente.sem_falha)
        => /\ ret.sucesso
           /\ Val(ret.nome) \in DOMAIN cliente.destino
           /\ cliente.destino[Val(ret.nome)] = cliente.enviados[Val(ret.nome)]

\* C24: exposed_recuperar_fragmento at cursor i asks the first node of slot
\* i's replica list only: if that node fails or does not hold the fragment,
\* the call returns the error value and the cursor stays at i, also when
\* another node of the list holds the fragment; if it answers and holds the
\* fragment, the bytes returned are that node's.
C24_SoOPrimeiroNo ==
    [][(/\ ret'.op = "recuperar_fragmento"
        /\ CursorLegivel
        /\ Val(indice_fragmento) < Len(tabela_indice[Val(nome_imagem_atual)])
        /\ tabela_indice[Val(nome_imagem_atual)][Val(indice_fragmento) + 1].nodes
               # <<>>)
        => LET i == Val(indice_fragmento)
               primeiro == tabela_indice[Val(nome_imagem_atual)][i + 1].nodes[1]
               caminho == _gerar_caminho_fragmento(nome_imagem_atual, i)
           IN  /\ (~Existe(arquivos[primeiro], caminho) \/ ret'.motivo = "falha")
                      => /\ ret'.valor = RetornoDeFalha
                         /\ indice_fragmento' = indice_fragmento
               /\ ret'.valor.tipo = "bytes"
                      => /\ Existe(arquivos[primeiro], caminho)
                         /\ ret'.valor.b = arquivos[primeiro][caminho]
      ]_vars

\* a retrieval has just failed at a slot whose first node does not hold the
\* fragment while another node of the replica list holds it
C24_Witness ==
    /\ ret.op = "recuperar_fragmento"
    /\ ret.valor = RetornoDeFalha
    /\ CursorLegivel
    /\ Val(indice_fragmento) < Len(tabela_indice[Val(nome_imagem_atual)])
    /\ LET nodes == tabela_indice[Val(nome_imagem_atual)]
                         [Val(indice_fragmento) + 1].nodes
           caminho == _gerar_caminho_fragmento(nome_imagem_atual,
                                               Val(indice_fragmento))
       IN  /\ Len(nodes) > 1
           /\ ~Existe(arquivos[nodes[1]], caminho)
           /\ \E k \in 2..Len(nodes) : Existe(arquivos[nodes[k]], caminho)

\* C25: exposed_recuperar_fragmento moves the cursor forward by exactly one
\* if and only if it returns the fragment's bytes, and leaves it where it was
\* whenever it returns the error value, for every stored content, the empty
\* one included.
C25_CursorAvancaSoComBytes ==
    [][ret'.op = "recuperar_fragmento"
        => /\ (ret'.valor.tipo = "bytes")
                  <=> (/\ indice_fragmento # None
                       /\ indice_fragmento' = Some(Val(indice_fragmento) + 1))
           /\ ret'.valor = RetornoDeFalha
                  => indice_fragmento' = indice_fragmento
      ]_vars

\* the slots of the object of the current session, none if it is not tracked
SlotsAtuais ==
    IF nome_imagem_atual # None /\ Val(nome_imagem_atual) \in DOMAIN tabela_indice
    THEN tabela_indice[Val(nome_imagem_atual)]
    ELSE <<>>

\* C26: no fragment submission changes the number of slots of a tracked
\* object or a slot other than the one it names, and a
\* submission whose index is outside [0, fragment_count), a negative index
\* included, returns failure and changes no slot of the table.
C26_IndiceForaDosSlots ==
    [][ret'.op = "upload_fragmento"
        => /\ DOMAIN tabela_indice' = DOMAIN tabela_indice
           /\ \A n \in DOMAIN tabela_indice :
                  Len(tabela_indice'[n]) = Len(tabela_indice[n])
           /\ (ret'.num # None
                /\ (Val(ret'.num) < 0 \/ Val(ret'.num) >= Len(SlotsAtuais)))
                  => /\ ~ret'.sucesso
                     /\ tabela_indice' = tabela_indice
      ]_vars

\* C22: _select_nodes_for_fragment is deterministic: a call returns the list
\* the first call returned for the same (image_name, fragment_index) and the
\* same nodes, whatever calls were made in between and whatever the order in
\* which the nodes are listed.
C22_SelecaoDeterministica ==
    (distribuicao.primeira # None /\ distribuicao.ultima # None)
        => LET p == Val(distribuicao.primeira)
               u == Val(distribuicao.ultima)
           IN  (/\ p.image_name = u.image_name
                /\ p.fragment_index = u.fragment_index
                /\ Elementos(p.available_nodes) = Elementos(u.available_nodes))
                   => p.selected_nodes = u.selected_nodes

\* the same key and the same nodes listed in another order, with a call for
\* another key in between
C22_Witness ==
    /\ distribuicao.primeira # None
    /\ distribuicao.ultima # None
    /\ distribuicao.outra
    /\ LET p == Val(distribuicao.primeira)
           u == Val(distribuicao.ultima)
       IN  /\ p.image_name = u.image_name
           /\ p.fragment_index = u.fragment_index
           /\ Elementos(p.available_nodes) = Elementos(u.available_nodes)
           /\ p.available_nodes # u.available_nodes
           /\ Len(u.available_nodes) = NumStorageNodes

\* the node that follows no in the ascending-hash order of the nodes of
\* lista, taken cyclically
SeguinteNoAnel(lista, no) ==
    LET maiores == {m \in Elementos(lista) :
                       _consistent_hash_no(m) > _consistent_hash_no(no)}
        candidatos == IF maiores = {} THEN Elementos(lista) ELSE maiores
    IN  CHOOSE m \in candidatos :
            \A o \in candidatos : _consistent_hash_no(m) <= _consistent_hash_no(o)

\* C29: _select_nodes_for_fragment returns replication_factor nodes of the
\* list: the first is the node whose hash is nearest in absolute difference
\* to the hash of "<name>_<index>", each following one is the next node of the
\* ascending-hash order taken cyclically, and the nodes are pairwise distinct
\* if the list has at least replication_factor nodes.
C29_AncoraMaisProximaEAnel ==
    distribuicao.ultima # None
        => LET u == Val(distribuicao.ultima)
               sel == u.selected_nodes
               h == _consistent_hash(u.image_name, u.fragment_index)
           IN  /\ Len(sel) = replication_factor
               /\ sel[1] \in Elementos(u.available_nodes)
               /\ \A n \in Elementos(u.available_nodes) :
                      Abs(_consistent_hash_no(sel[1]) - h)
                          <= Abs(_consistent_hash_no(n) - h)
               /\ \A k \in 1..(replication_factor - 1) :
                      sel[k + 1] = SeguinteNoAnel(u.available_nodes, sel[k])
               /\ Len(u.available_nodes) >= replication_factor
                      => \A i, j \in 1..Len(sel) : i # j => sel[i] # sel[j]

\* a call on all the storage nodes whose nearest node lies below the key's
\* hash, so that it is not the clockwise successor
C29_Witness ==
    /\ distribuicao.ultima # None
    /\ LET u == Val(distribuicao.ultima)
           h == _consistent_hash(u.image_name, u.fragment_index)
       IN  /\ Len(u.available_nodes) = NumStorageNodes
           /\ _consistent_hash_no(u.selected_nodes[1]) < h
           /\ \E n \in Elementos(u.available_nodes) : _consistent_hash_no(n) >= h

\* C21: with at least FATOR_REPLICACAO nodes in the cluster, the list that
\* selecionar_nos_armazenamento of cluster.py returns is the first
\* FATOR_REPLICACAO nodes of the ranking.
C21_OsPrimeirosR ==
    (ret.op = "Cluster.selecionar_nos_armazenamento"
     /\ NumDatanodes >= FATOR_REPLICACAO)
        => ranking.retorno = SubSeq(ranking.nos_pontuados, 1, FATOR_REPLICACAO)

\* C27: the replica list of every slot of the table holds pairwise distinct
\* nodes and at most FATOR_REPLICACAO of them.
C27_ReplicasDistintasENoMaximoR ==
    \A n \in DOMAIN tabela_indice :
        \A i \in 1..Len(tabela_indice[n]) :
            LET nodes == tabela_indice[n][i].nodes
            IN  /\ \A j, k \in 1..Len(nodes) : j # k => nodes[j] # nodes[k]
                /\ Len(nodes) <= FATOR_REPLICACAO

\* C28: the ranking of selecionar_nos_armazenamento holds every node once,
\* in the order of non-increasing score 0.4*(100-cpu) + 0.3*(100-mem) +
\* 0.3*(100-disk); nodes of equal score are in data_nodes order; a node whose
\* probe fails has score 0 and is in the ranking.
C28_RankingOrdenado ==
    ret.op = "Cluster.selecionar_nos_armazenamento"
        => LET r == ranking.nos_pontuados
               pontos(n) ==
                   IF ranking.leituras[n].ok
                   THEN 4 * (100 - ranking.leituras[n].cpu)
                        + 3 * (100 - ranking.leituras[n].memoria)
                        + 3 * (100 - ranking.leituras[n].disco)
                   ELSE 0
           IN  /\ Len(r) = NumDatanodes
               /\ Elementos(r) = DataNodes
               /\ \A i, j \in 1..Len(r) :
                      i < j => \/ pontos(r[i]) > pontos(r[j])
                               \/ pontos(r[i]) = pontos(r[j]) /\ r[i] < r[j]

\* a ranking with a failed probe, a tie between two different readings and a
\* first node that is not the first node of data_nodes
C28_Witness ==
    /\ ret.op = "Cluster.selecionar_nos_armazenamento"
    /\ \E n \in DataNodes : ~ranking.leituras[n].ok
    /\ \E n, m \in DataNodes :
           /\ ranking.leituras[n].ok /\ ranking.leituras[m].ok
           /\ ranking.leituras[n] # ranking.leituras[m]
           /\ calcular_pontuacao_no(ranking.leituras[n])
                  = calcular_pontuacao_no(ranking.leituras[m])
    /\ ranking.nos_pontuados[1] # 1

\* what a call of get_system_status returns in the current state
StatusAtual == get_system_status(storage_nodes, image_metadata)

IdsRegistrados == [k \in 1..Len(storage_nodes) |-> storage_nodes[k].node_id]

InfoDe(node_id) == storage_nodes[PosicaoDe(storage_nodes, node_id)].info

\* registered, active, and the last heartbeat is more than 30 seconds old
SemBatimento(node_id) ==
    /\ Registrado(storage_nodes, node_id)
    /\ InfoDe(node_id).status = "active"
    /\ relogio - InfoDe(node_id).last_heartbeat > 30

\* C23: with the health thread scheduled fairly, a registered node whose last
\* heartbeat is more than 30 seconds old is eventually marked inactive (unless
\* a heartbeat, a registration or a deregistration of it comes first); a step
\* of the thread that marks a node lowers active_nodes of get_system_status
\* by one and keeps total_nodes, and no step of the thread removes a node.
C23_VarreduraMarcaInativo ==
    /\ \A node_id \in NodeIds :
           SemBatimento(node_id) ~> ~SemBatimento(node_id)
    /\ [][ret'.op = "_check_node_health"
             => /\ IdsRegistrados' = IdsRegistrados
                /\ StatusAtual'.total_nodes = StatusAtual.total_nodes
                /\ storage_nodes' # storage_nodes
                      => StatusAtual'.active_nodes
                             = StatusAtual.active_nodes - 1]_vars

\* the thread has just marked a node whose heartbeat was too old, next to a
\* node that stays active
C23_Witness ==
    /\ ret.op = "_check_node_health"
    /\ ret.motivo = "verificar"
    /\ storage_nodes[Val(ret.num)].info.status = "inactive"
    /\ varredura.current_time
           - storage_nodes[Val(ret.num)].info.last_heartbeat > 30
    /\ StatusAtual.active_nodes = 1
    /\ StatusAtual.total_nodes = 2

\* C30: exposed_heartbeat for a registered node sets that node's
\* last_heartbeat to the time it reads and its status to active, keeps the
\* node's address and every other entry, and returns True; for a node that is
\* not registered it returns False and changes nothing.
C30_BatimentoSoAtualizaUmNo ==
    [][ret'.op = "heartbeat"
          => LET node_id == Val(ret'.nome)
             IN  IF Registrado(storage_nodes, node_id)
                 THEN /\ ret'.sucesso
                      /\ relogio' >= relogio
                      /\ Len(storage_nodes') = Len(storage_nodes)
                      /\ \A k \in 1..Len(storage_nodes) :
                             IF storage_nodes[k].node_id = node_id
                             THEN storage_nodes'[k] =
                                      Item(node_id,
                                           storage_nodes[k].info.address,
                                           "active", relogio')
                             ELSE storage_nodes'[k] = storage_nodes[k]
                 ELSE /\ ~ret'.sucesso
                      /\ storage_nodes' = storage_nodes
                      /\ relogio' = relogio]_vars

\* a heartbeat has brought an inactive node back while the other node stays
\* inactive with its old heartbeat
C30_Witness ==
    /\ ret.op = "heartbeat"
    /\ ret.sucesso
    /\ Len(storage_nodes) = 2
    /\ InfoDe(Val(ret.nome)).status = "active"
    /\ InfoDe(Val(ret.nome)).last_heartbeat = relogio
    /\ \E k \in 1..2 :
           /\ storage_nodes[k].node_id # Val(ret.nome)
           /\ storage_nodes[k].info.status = "inactive"
           /\ storage_nodes[k].info.last_heartbeat < relogio

\* C31: an iteration of the health thread's loop changes nothing but the
\* status of the item it visits, which becomes inactive if and only if the
\* pass's current_time minus the item's last_heartbeat is more than 30 (else
\* it keeps its status); a pass ends only after it has visited every item,
\* and every item it has visited with a heartbeat more than 30 seconds old is
\* inactive; no step of the thread adds or removes an item or makes one
\* active; a node goes from inactive to active only in a heartbeat or a
\* registration of that node.
C31_PassoMarcaSoOsAtrasados ==
    /\ [](varredura.pc = "varrendo"
             => \A j \in 1..Len(storage_nodes) :
                    (j < varredura.proximo
                     /\ varredura.current_time
                            - storage_nodes[j].info.last_heartbeat > 30)
                        => storage_nodes[j].info.status = "inactive")
    /\ [][ret'.op = "_check_node_health"
             => /\ Len(storage_nodes') = Len(storage_nodes)
                /\ ret'.motivo = "dormir"
                       => /\ varredura.proximo = Len(storage_nodes) + 1
                          /\ storage_nodes' = storage_nodes
                /\ ret'.motivo = "entrar"
                       => /\ varredura'.proximo = 1
                          /\ varredura'.current_time = relogio'
                          /\ storage_nodes' = storage_nodes
                /\ ret'.motivo = "verificar"
                       => /\ varredura'.proximo = varredura.proximo + 1
                          /\ varredura'.current_time = varredura.current_time
                /\ \A j \in 1..Len(storage_nodes) :
                       IF /\ ret'.motivo = "verificar"
                          /\ j = varredura.proximo
                          /\ varredura.current_time
                                 - storage_nodes[j].info.last_heartbeat > 30
                       THEN storage_nodes'[j] =
                                Item(storage_nodes[j].node_id,
                                     storage_nodes[j].info.address,
                                     "inactive",
                                     storage_nodes[j].info.last_heartbeat)
                       ELSE storage_nodes'[j] = storage_nodes[j]]_vars
    /\ [][\A node_id \in NodeIds :
              (/\ Registrado(storage_nodes, node_id)
               /\ InfoDe(node_id).status = "inactive"
               /\ Registrado(storage_nodes', node_id)
               /\ InfoDe(node_id)'.status = "active")
                  => /\ ret'.op \in {"heartbeat", "register_storage_node"}
                     /\ ret'.nome = Some(node_id)]_vars

\* a pass has visited both items: the one whose heartbeat is 45 seconds old
\* is inactive, the one whose heartbeat is exactly 30 seconds old is active
C31_Witness ==
    /\ varredura.pc = "varrendo"
    /\ Len(storage_nodes) = 2
    /\ varredura.proximo = 3
    /\ \E j, k \in 1..2 :
           /\ varredura.current_time - storage_nodes[j].info.last_heartbeat = 45
           /\ storage_nodes[j].info.status = "inactive"
           /\ varredura.current_time - storage_nodes[k].info.last_heartbeat = 30
           /\ storage_nodes[k].info.status = "active"

\* the callbacks subscribed to a topic, in subscription order
AssinantesDe(topico) ==
    IF TemTopico(assinantes, topico)
    THEN assinantes[CHOOSE k \in 1..Len(assinantes) :
                        assinantes[k].topico = topico].callbacks
    ELSE <<>>

\* C37: publicar_evento(T, data) invokes the callbacks subscribed to T, each
\* once and in subscription order, also after a callback that raises, and
\* invokes no callback subscribed to another topic name.
C37_SoOsAssinantesDoTopico ==
    ret.op = "publicar_evento"
        => /\ Len(entregas.invocacoes) = Len(AssinantesDe(Val(ret.nome)))
           /\ \A j \in 1..Len(entregas.invocacoes) :
                  /\ entregas.invocacoes[j].callback
                         = AssinantesDe(Val(ret.nome))[j]
                  /\ entregas.invocacoes[j].topico_registrado = Val(ret.nome)

\* C34: an iteration of detectar_falha_datanode probes the next node of
\* data_nodes; if the probe raises or the reading violates cpu < 80, mem < 90
\* or disk < 95 the node is appended to the list and exactly one
\* 'falha_datanode' event with the node's id and address is published, else
\* the list is kept and nothing is published; in both cases the call goes
\* on. The call returns its list after it has visited every node, the list
\* is in node order, and the call is left by a raise only when data_nodes
\* has changed size during the loop.
C34_DeteccaoExata ==
    /\ [](deteccao.pc = "iterando" /\ Len(data_nodes) = deteccao.tamanho
             => \A j \in 1..Len(deteccao.datanodes_com_falha) :
                   /\ \E k \in 1..deteccao.pos :
                          data_nodes[k] = deteccao.datanodes_com_falha[j].id
                   /\ j > 1 => deteccao.datanodes_com_falha[j - 1].id
                                  < deteccao.datanodes_com_falha[j].id)
    /\ [][ret'.op = "detectar_falha_datanode"
             => /\ data_nodes' = data_nodes
                /\ ret'.motivo = "iterar"
                       => LET id_datanode == data_nodes[deteccao.pos + 1]
                              com_falha ==
                                  \/ ~ret'.valor.ok
                                  \/ ~(ret'.valor.cpu < 80)
                                  \/ ~(ret'.valor.memoria < 90)
                                  \/ ~(ret'.valor.disco < 95)
                          IN  /\ ret'.nome = Some(id_datanode)
                              /\ deteccao'.pc = "iterando"
                              /\ deteccao'.pos = deteccao.pos + 1
                              /\ deteccao'.datanodes_com_falha =
                                     IF com_falha
                                     THEN Append(deteccao.datanodes_com_falha,
                                                 [id |-> id_datanode,
                                                  endereco |-> id_datanode])
                                     ELSE deteccao.datanodes_com_falha
                              /\ entregas'.eventos =
                                     IF com_falha
                                     THEN <<[topico |-> "falha_datanode",
                                             dados |->
                                                 [datanode_id |-> id_datanode,
                                                  endereco |-> id_datanode]]>>
                                     ELSE <<>>
                /\ ret'.motivo = "retornar"
                       => /\ deteccao.pos = Len(data_nodes)
                          /\ ret'.num = Some(deteccao.datanodes_com_falha)
                          /\ entregas' = entregas
                /\ ~ret'.sucesso => Len(data_nodes) # deteccao.tamanho]_vars

\* a call over the four nodes has returned the second and the fourth node
C34_Witness ==
    /\ ret.op = "detectar_falha_datanode"
    /\ ret.motivo = "retornar"
    /\ Len(data_nodes) = NumDatanodes
    /\ ret.num = Some(<<Falha(2), Falha(4)>>)
    /\ Len(assinantes) > 0

\* C35: after reconfigurar_cluster(failed) no node of the list is in
\* data_nodes, the cluster has been reconnected, and one
\* 'reconfigurar_cluster' event with the list has been published and has
\* reached every callback subscribed to that topic once.
C35_ReconfiguracaoCompleta ==
    ret.op = "reconfigurar_cluster"
        => /\ \A j \in 1..Len(Val(ret.num)) :
                  \A k \in 1..Len(data_nodes) :
                      data_nodes[k] # Val(ret.num)[j].id
           /\ ret.sucesso
           /\ entregas.eventos =
                  <<[topico |-> "reconfigurar_cluster",
                     dados |-> [datanodes_removidos |-> Val(ret.num)]]>>
           /\ \A c \in Callbacks :
                  Cardinality({j \in 1..Len(entregas.invocacoes) :
                                  entregas.invocacoes[j].callback = c})
                      = Cardinality(
                            {j \in 1..Len(AssinantesDe("reconfigurar_cluster")) :
                                AssinantesDe("reconfigurar_cluster")[j] = c})

\* the first part of C35 alone: no node of the list is in data_nodes
C35_FalhosRemovidos ==
    ret.op = "reconfigurar_cluster"
        => \A j \in 1..Len(Val(ret.num)) :
               \A k \in 1..Len(data_nodes) :
                   data_nodes[k] # Val(ret.num)[j].id

\* C36: a step of detectar_falha_datanode or of reconfigurar_cluster leaves
\* the table, the session and the files of the data nodes as they are; a step
\* of detectar_falha_datanode leaves data_nodes as it is, and data_nodes
\* changes only in reconfigurar_cluster, which only removes nodes.
C36_SoAReconfiguracaoRemove ==
    /\ [][ret'.op \in {"detectar_falha_datanode", "reconfigurar_cluster"}
             => /\ tabela_indice' = tabela_indice
                /\ nos_selecionados' = nos_selecionados
                /\ arquivos' = arquivos
                /\ current_storage_mb' = current_storage_mb]_vars
    /\ [][ret'.op = "detectar_falha_datanode"
             => data_nodes' = data_nodes]_vars
    /\ [][data_nodes' # data_nodes
             => /\ ret'.op = "reconfigurar_cluster"
                /\ \A k \in 1..Len(data_nodes') :
                       \E j \in 1..Len(data_nodes) :
                           data_nodes'[k] = data_nodes[j]]_vars

\* a detection over the four nodes has returned node 1, which holds a
\* fragment of the table, and node 1 is still in the map
C36_Witness ==
    /\ ret.op = "detectar_falha_datanode"
    /\ ret.motivo = "retornar"
    /\ Len(Val(ret.num)) > 0
    /\ Val(ret.num)[1] = Falha(1)
    /\ data_nodes[1] = 1
    /\ \E n \in DOMAIN tabela_indice :
           \E i \in 1..Len(tabela_indice[n]) :
               1 \in Elementos(tabela_indice[n][i].nodes)
    /\ arquivos[1] # <<>>

\* C39: every node id in a replica list of the table or in the session's
\* selected nodes is a key of data_nodes.
C39_NosDaTabelaNoMapa ==
    /\ \A n \in DOMAIN tabela_indice :
           \A i \in 1..Len(tabela_indice[n]) :
               Elementos(tabela_indice[n][i].nodes) \subseteq Elementos(data_nodes)
    /\ nos_selecionados # None
           => Elementos(Val(nos_selecionados)) \subseteq Elementos(data_nodes)

\* the file of the last submission on a node
ArquivoDaSubmissao(arqs, r, no) ==
    arqs[no][_gerar_caminho_fragmento(r.nome, Val(r.num))]

TemArquivoDaSubmissao(arqs, r, no) ==
    Existe(arqs[no], _gerar_caminho_fragmento(r.nome, Val(r.num)))

\* C38: a submission has failed after the first selected node stored the
\* bytes and before the second did; when the same bytes and index are
\* submitted again and the submission succeeds, every selected node holds
\* exactly the submitted bytes under (name, index).
C38_RepeticaoGuardaOsBytes ==
    [][(/\ ret.op = "upload_fragmento" /\ ~ret.sucesso
        /\ ret'.op = "upload_fragmento" /\ ret'.sucesso
        /\ ret'.nome = ret.nome /\ ret'.valor = ret.valor
        /\ ret'.num = ret.num
        /\ nos_selecionados # None
        /\ TemArquivoDaSubmissao(arquivos, ret, Val(nos_selecionados)[1])
        /\ ArquivoDaSubmissao(arquivos, ret, Val(nos_selecionados)[1])
               = ret.valor.b
        /\ ~TemArquivoDaSubmissao(arquivos, ret, Val(nos_selecionados)[2]))
           => \A k \in 1..Len(Val(nos_selecionados)) :
                  /\ TemArquivoDaSubmissao(arquivos', ret', Val(nos_selecionados)[k])
                  /\ ArquivoDaSubmissao(arquivos', ret', Val(nos_selecionados)[k])
                         = ret'.valor.b]_vars

\* C40: the node list upload_image looks up for the fragment it is about to
\* send is the list the placement computed for that index, which is not
\* empty; and an upload of a non-empty file in which no write was refused
\* ends with the call of complete_upload.
C40_UploadEncontraOsNos ==
    /\ interface.pc = "enviando"
           => /\ dict_get(interface.distribution,
                          PyStr(str(interface.fragment_id)), <<>>)
                     = _select_nodes_for_fragment(Val(interface.image_name),
                                                  interface.fragment_id,
                                                  get_storage_nodes)
              /\ _select_nodes_for_fragment(Val(interface.image_name),
                                            interface.fragment_id,
                                            get_storage_nodes) # <<>>
    /\ (interface.pc = "fim" /\ interface.dados # <<>>
        /\ interface.recusas = 0)
           => interface.concluiu

\* self.lock of the CoordinatorNode is free: the handlers that take it run
\* in one step, and the health thread holds it for the whole of a pass
TrancaLivre == varredura.pc = "dormindo"

\* C32: every handler of the CoordinatorNode that reads storage_nodes or
\* image_metadata does it holding the lock, so get_system_status never runs
\* while the health thread is in the middle of a pass over storage_nodes.
C32_LeituraSobATranca ==
    [][exposed_get_system_status => TrancaLivre]_vars

\* the last initiation of the client of the last call was of this kind
IniciouPorUltimo(op) ==
    /\ sessoes.iniciou[sessoes.chamador] # None
    /\ Val(sessoes.iniciou[sessoes.chamador]).op = op

\* C33: with two clients calling one Server in any order, a fragment
\* submitted with success by a client whose last initiation was an upload is
\* recorded under the name of that upload, and a fragment returned to a
\* client whose last initiation was a download is read from the object of
\* that download.
C33_CadaClienteNoSeuObjeto ==
    /\ (ret.op = "upload_fragmento" /\ ret.sucesso
        /\ IniciouPorUltimo("upload"))
           => ret.nome = Some(Val(sessoes.iniciou[sessoes.chamador]).nome)
    /\ (ret.op = "recuperar_fragmento" /\ ret.sucesso
        /\ IniciouPorUltimo("download"))
           => ret.nome = Some(Val(sessoes.iniciou[sessoes.chamador]).nome)

====
